---------------------------- MODULE Spec2Model ----------------------------
(***************************************************************************)
(* CinemaCal: the reconciliation pipeline of src/ui/webapp/tasks.py        *)
(* (_merge_double_screenings, _deduplicate_screenings, the final sort) and *)
(* the background job orchestrator (start_scrape_job, _do_scrape) with its *)
(* concurrent HTTP readers (routes.py).                                    *)
(*                                                                         *)
(* Conventions.  Optional[T] is a sequence of length <= 1: None is << >>,  *)
(* a present value x is <<x>>.  A date is its day number, a time its       *)
(* minute of the day.  Venue names are sequences of characters, so that    *)
(* lower(), strip(), "in" and string comparison are computed, not assumed. *)
(*                                                                         *)
(* Specifications.  ReconSpec runs the pipeline stage by stage on every    *)
(* candidate list up to MaxLen.  Spec runs up to MaxJobs jobs side by      *)
(* side; FairSpec adds weak fairness of every thread.  JobSpec runs one    *)
(* job under every configuration while readers poll it; PollSpec runs up  *)
(* to MaxJobs one-source jobs side by side while readers poll them.        *)
(* CacheSpec runs the per-date workers of one Coolidge scrape through      *)
(* _get_detail_page_info; PoolSpec and WindowSpec run scrape() of the      *)
(* Coolidge scraper, the first with the per-date tasks counted (up to      *)
(* MaxDaysAhead + 1 dates), the second with the tasks told apart (up to    *)
(* MaxWindow + 1 dates); FetchSpec runs one call of fetch_with_retry.      *)
(***************************************************************************)
EXTENDS Integers, Sequences, FiniteSets, TLC

VARIABLES
    jobs,     \* _jobs: job id -> JobStatus
    thr,      \* job id -> the locals and position of its _do_scrape thread
    resp,     \* the response of the HTTP handler that ran in the last step, if any
    rin,      \* reconciler: the candidate list handed to the pipeline
    rcur,     \* reconciler: the list after the stage named by rstage
    rstage,   \* reconciler: "input", "pass1", "merged", "deduped", "sorted", "dedup_only"
    dcache,   \* Coolidge: _detail_cache, cache key -> Optional (director, year)
    dlock,    \* Coolidge: the holder of _detail_cache_lock, 0 when free
    dwork,    \* Coolidge: per-date worker -> its position in _get_detail_page_info
    dlog,     \* Coolidge: cache key -> misses observed, requests sent, entries written
    pool,     \* Coolidge: scrape() and its executor, the per-date tasks counted by state
    fetch,    \* one call of fetch_with_retry: its locals, the requests sent, the sleeps
    win,      \* Coolidge: scrape() over a short date window, the per-date tasks told apart
    call      \* one call of a sequential function: its name, inputs, locals and position

rvars == <<rin, rcur, rstage>>

jvars == <<jobs, thr, resp>>

cvars == <<dcache, dlock, dwork, dlog>>

\* The variables of the scrapers.
svars == <<cvars, pool, fetch, win, call>>

\* The variables of the web application and the reconciler.
wvars == <<jvars, rvars>>

vars == <<jobs, thr, resp, rin, rcur, rstage, dcache, dlock, dwork, dlog, pool,
          fetch, win, call>>

(***************************************************************************)
(* Optional values                                                         *)
(***************************************************************************)
None == << >>

Some(x) == <<x>>

\* Python truthiness of an Optional[str]: not None and not "".
TruthyStr(o) == o # None /\ o[1] # ""

\* Python truthiness of an Optional[list]: not None and not [].
TruthyList(o) == o # None /\ o[1] # << >>

\* The value of resp when no handler ran in the last step.
NoResp == [op |-> "none"]

\* No Coolidge scraper has been constructed.
CacheIdle ==
    /\ dcache = << >>
    /\ dlock = 0
    /\ dwork = << >>
    /\ dlog = << >>

\* scrape() of the Coolidge scraper is not running.
PoolIdle == pool = [pc |-> "idle"]

\* fetch_with_retry is not running.
FetchIdle == fetch = [pc |-> "idle"]

\* No short-window scrape() of the Coolidge scraper is running.
WindowIdle == win = [pc |-> "idle"]

\* No sequential function is being followed.
CallIdle == call = [fn |-> "idle"]

ScrapersIdle == CacheIdle /\ PoolIdle /\ FetchIdle /\ WindowIdle /\ CallIdle

(***************************************************************************)
(* Character strings (venue names)                                         *)
(***************************************************************************)
\* The characters that occur, in code-point order (space < upper < lower).
Alphabet ==
    <<" ", "A", "B", "C", "F", "H", "M", "N", "S", "T", "W",
      "a", "b", "c", "d", "e", "f", "g", "h", "i", "l", "m", "n", "o", "p",
      "r", "s", "t", "u", "v", "w">>

Ord(c) == CHOOSE i \in 1..Len(Alphabet) : Alphabet[i] = c

\* str.lower() on one character.
LowerChar(c) ==
    CASE c = "A" -> "a" [] c = "B" -> "b" [] c = "C" -> "c" [] c = "F" -> "f"
      [] c = "H" -> "h" [] c = "M" -> "m" [] c = "N" -> "n" [] c = "S" -> "s"
      [] c = "T" -> "t" [] c = "W" -> "w" [] OTHER -> c

Lower(s) == [i \in 1..Len(s) |-> LowerChar(s[i])]

RECURSIVE LStrip(_)
LStrip(s) == IF s # << >> /\ Head(s) = " " THEN LStrip(Tail(s)) ELSE s

RECURSIVE RStrip(_)
RStrip(s) ==
    IF s # << >> /\ s[Len(s)] = " " THEN RStrip(SubSeq(s, 1, Len(s) - 1)) ELSE s

Strip(s) == RStrip(LStrip(s))

\* Python's "a in b" on strings: a is a contiguous part of b.
StrIn(a, b) ==
    \E i \in 0..(Len(b) - Len(a)) : SubSeq(b, i + 1, i + Len(a)) = a

\* Python's a < b on strings: lexicographic by code point.
RECURSIVE StrLess(_, _)
StrLess(a, b) ==
    IF b = << >> THEN FALSE
    ELSE IF a = << >> THEN TRUE
    ELSE IF Head(a) = Head(b) THEN StrLess(Tail(a), Tail(b))
    ELSE Ord(Head(a)) < Ord(Head(b))

TheBrattle == <<"T", "h", "e", " ", "B", "r", "a", "t", "t", "l", "e">>

CoolidgeCornerTheatre ==
    <<"C", "o", "o", "l", "i", "d", "g", "e", " ", "C", "o", "r", "n", "e", "r",
      " ", "T", "h", "e", "a", "t", "r", "e">>

HarvardFilmArchive ==
    <<"H", "a", "r", "v", "a", "r", "d", " ", "F", "i", "l", "m", " ",
      "A", "r", "c", "h", "i", "v", "e">>

SomervilleTheatre ==
    <<"S", "o", "m", "e", "r", "v", "i", "l", "l", "e", " ",
      "T", "h", "e", "a", "t", "r", "e">>

WestNewtonCinema ==
    <<"W", "e", "s", "t", " ", "N", "e", "w", "t", "o", "n", " ",
      "C", "i", "n", "e", "m", "a">>

MuseumOfFineArts ==
    <<"M", "u", "s", "e", "u", "m", " ", "o", "f", " ", "F", "i", "n", "e", " ",
      "A", "r", "t", "s">>

CapitolTheatre ==
    <<"C", "a", "p", "i", "t", "o", "l", " ", "T", "h", "e", "a", "t", "r", "e">>

\* The keys of VENUE_ADDRESSES, in the dict's insertion order.
VENUE_ADDRESSES ==
    <<TheBrattle, CoolidgeCornerTheatre, HarvardFilmArchive, SomervilleTheatre,
      WestNewtonCinema, MuseumOfFineArts, CapitolTheatre>>

\* An alias a caller may pass ("e.g. 'Brattle' -> 'The Brattle'").
BrattleAlias == <<"B", "r", "a", "t", "t", "l", "e">>

(***************************************************************************)
(* _canonical_venue                                                        *)
(***************************************************************************)
RECURSIVE FirstMatchingName(_, _, _)
FirstMatchingName(venue, v_lower, i) ==
    IF i > Len(VENUE_ADDRESSES) THEN venue
    ELSE LET name == VENUE_ADDRESSES[i]
         IN  IF StrIn(Lower(name), v_lower) \/ StrIn(v_lower, Lower(name))
             THEN name
             ELSE FirstMatchingName(venue, v_lower, i + 1)

_canonical_venue(venue) ==
    IF venue = << >> THEN venue
    ELSE FirstMatchingName(venue, Strip(Lower(venue)), 1)

(***************************************************************************)
(* Screening                                                               *)
(***************************************************************************)
Screening(title, venue, date, time, source_url, source_site, runtime_minutes, director, year, extra, special_attributes) ==
    [title |-> title, venue |-> venue, date |-> date, time |-> time,
     source_url |-> source_url, source_site |-> source_site,
     runtime_minutes |-> runtime_minutes, director |-> director,
     year |-> year, extra |-> extra, special_attributes |-> special_attributes]

\* " + ".join(xs), ", ".join(xs)
RECURSIVE Join(_, _)
Join(sep, xs) ==
    IF xs = << >> THEN ""
    ELSE IF Len(xs) = 1 THEN xs[1]
    ELSE xs[1] \o sep \o Join(sep, Tail(xs))

\* The first element in place of the sum.
SumOfFirst(xs) == IF xs = << >> THEN 0 ELSE Head(xs)

\* sum(xs)
RECURSIVE Sum(_)
Sum(xs) == IF xs = << >> THEN 0 ELSE Head(xs) + Sum(Tail(xs))

\* len(set(xs)) == 1
AllSame(xs) == xs # << >> /\ \A i \in 1..Len(xs) : xs[i] = xs[1]

\* list(dict.fromkeys(xs)): first occurrences, in order.
RECURSIVE FromKeys(_)
FromKeys(xs) ==
    IF xs = << >> THEN << >>
    ELSE LET init == FromKeys(SubSeq(xs, 1, Len(xs) - 1))
             x    == xs[Len(xs)]
         IN  IF \E i \in 1..Len(init) : init[i] = x THEN init ELSE Append(init, x)

\* [s.director for s in group if s.director]
RECURSIVE Directors(_)
Directors(group) ==
    IF group = << >> THEN << >>
    ELSE (IF TruthyStr(Head(group).director) THEN Head(group).director ELSE << >>)
         \o Directors(Tail(group))

\* [s.runtime_minutes for s in group if s.runtime_minutes is not None]
RECURSIVE Runtimes(_)
Runtimes(group) ==
    IF group = << >> THEN << >>
    ELSE Head(group).runtime_minutes \o Runtimes(Tail(group))

\* [s.extra for s in group if s.extra]
RECURSIVE Extras(_)
Extras(group) ==
    IF group = << >> THEN << >>
    ELSE (IF TruthyStr(Head(group).extra) THEN Head(group).extra ELSE << >>)
         \o Extras(Tail(group))

\* all_special: the concatenation of the non-empty special_attributes lists.
RECURSIVE AllSpecial(_)
AllSpecial(group) ==
    IF group = << >> THEN << >>
    ELSE (IF TruthyList(Head(group).special_attributes)
          THEN Head(group).special_attributes[1] ELSE << >>)
         \o AllSpecial(Tail(group))

\* The merged record of a same-slot group (Pass 1, lines 177-207).
MergeGroup(group) ==
    LET first      == group[1]
        titles     == [i \in 1..Len(group) |-> group[i].title]
        directors  == Directors(group)
        runtimes   == Runtimes(group)
        extras     == Extras(group)
        all_special == AllSpecial(group)
    IN  Screening(
            Join(" + ", titles),
            first.venue, first.date, first.time,
            first.source_url, first.source_site,
            IF runtimes # << >> THEN Some(Sum(runtimes)) ELSE None,
            IF directors = << >> THEN None
            ELSE IF AllSame(directors) THEN Some(directors[1])
            ELSE Some(Join(" + ", directors)),
            first.year,
            IF extras # << >> THEN Some(Join(", ", extras)) ELSE None,
            IF all_special # << >> THEN Some(FromKeys(all_special)) ELSE None)

\* A pairwise merge that keeps the first record and drops the second.
KeepFirstOfTwo(first, second) == first

\* _merge_two_screenings builds the same record from the pair (first, second).
_merge_two_screenings(first, second) == MergeGroup(<<first, second>>)

(***************************************************************************)
(* _merge_double_screenings                                                *)
(***************************************************************************)
\* A slot key without the date.
SlotKeyAnyDate(s) == <<_canonical_venue(s.venue), 0, s.time>>

SlotKey(s) == <<_canonical_venue(s.venue), s.date, s.time>>

\* key_to_list after the grouping loop: the groups in first-seen key order,
\* each group in input order.
RECURSIVE GroupBySlot(_)
GroupBySlot(screenings) ==
    IF screenings = << >> THEN << >>
    ELSE LET groups == GroupBySlot(SubSeq(screenings, 1, Len(screenings) - 1))
             s      == screenings[Len(screenings)]
             hit    == {i \in 1..Len(groups) : SlotKey(groups[i][1]) = SlotKey(s)}
         IN  IF hit = {} THEN Append(groups, <<s>>)
             ELSE LET i == CHOOSE i \in hit : TRUE
                  IN  [groups EXCEPT ![i] = Append(@, s)]

\* What Pass 1 appends to result for one group.
MergeSlot(group) ==
    IF Len(group) = 1 THEN group[1]
    ELSE IF AllSame([i \in 1..Len(group) |-> group[i].title]) THEN group[1]
    ELSE MergeGroup(group)

\* result at the end of Pass 1.
MergePass1(screenings) ==
    LET groups == GroupBySlot(screenings)
    IN  [i \in 1..Len(groups) |-> MergeSlot(groups[i])]

\* (canonical venue, date, time) tuple comparison of the Pass 2 sort key.
SlotKeyLess(a, b) ==
    LET ka == SlotKey(a)
        kb == SlotKey(b)
    IN  \/ StrLess(ka[1], kb[1])
        \/ ka[1] = kb[1] /\ ka[2] < kb[2]
        \/ ka[1] = kb[1] /\ ka[2] = kb[2] /\ ka[3] < kb[3]

\* (date, time) tuple comparison of the final sort key.
DateTimeLess(a, b) ==
    \/ a.date < b.date
    \/ a.date = b.date /\ a.time < b.time

\* xs with x put after its first n elements.
InsertAfter(xs, x, n) == SubSeq(xs, 1, n) \o <<x>> \o SubSeq(xs, n + 1, Len(xs))

\* result.sort(key=lambda s: (_canonical_venue(s.venue), s.date, s.time)).
\* list.sort is stable: x goes after every element not greater than it.
RECURSIVE SortBySlot(_)
SortBySlot(xs) ==
    IF xs = << >> THEN << >>
    ELSE LET sorted == SortBySlot(SubSeq(xs, 1, Len(xs) - 1))
             x      == xs[Len(xs)]
         IN  InsertAfter(sorted, x,
                 Cardinality({i \in 1..Len(sorted) : ~SlotKeyLess(x, sorted[i])}))

\* screenings.sort(key=lambda s: (s.date, s.time))
RECURSIVE SortByDateTime(_)
SortByDateTime(xs) ==
    IF xs = << >> THEN << >>
    ELSE LET sorted == SortByDateTime(SubSeq(xs, 1, Len(xs) - 1))
             x      == xs[Len(xs)]
         IN  InsertAfter(sorted, x,
                 Cardinality({i \in 1..Len(sorted) : ~DateTimeLess(x, sorted[i])}))

HasDoubleFeature(s) ==
    /\ TruthyList(s.special_attributes)
    /\ \E k \in 1..Len(s.special_attributes[1]) :
          s.special_attributes[1][k] = "Double feature"

\* The while loop of Pass 2 with i += 1 after a merge: the successor that was
\* merged is scanned again.
RECURSIVE MergePass2FromNoSkip(_, _)
MergePass2FromNoSkip(result, i) ==
    IF i > Len(result) THEN << >>
    ELSE LET s == result[i]
             next_same_venue_date ==
                 /\ i + 1 <= Len(result)
                 /\ _canonical_venue(result[i + 1].venue) = _canonical_venue(s.venue)
                 /\ result[i + 1].date = s.date
         IN  IF HasDoubleFeature(s) /\ next_same_venue_date
             THEN <<_merge_two_screenings(s, result[i + 1])>>
                  \o MergePass2FromNoSkip(result, i + 1)
             ELSE <<s>> \o MergePass2FromNoSkip(result, i + 1)

\* The while loop of Pass 2 from index i (1-based) on.
RECURSIVE MergePass2From(_, _)
MergePass2From(result, i) ==
    IF i > Len(result) THEN << >>
    ELSE LET s == result[i]
             next_same_venue_date ==
                 /\ i + 1 <= Len(result)
                 /\ _canonical_venue(result[i + 1].venue) = _canonical_venue(s.venue)
                 /\ result[i + 1].date = s.date
         IN  IF HasDoubleFeature(s) /\ next_same_venue_date
             THEN <<_merge_two_screenings(s, result[i + 1])>>
                  \o MergePass2From(result, i + 2)
             ELSE <<s>> \o MergePass2From(result, i + 1)

MergePass2(result) == MergePass2From(SortBySlot(result), 1)

_merge_double_screenings(screenings) == MergePass2(MergePass1(screenings))

(***************************************************************************)
(* _deduplicate_screenings                                                 *)
(***************************************************************************)
SCREEN_BOSTON == "Screen Boston"

\* venue_to_preferred_site.get(venue): Optional[str]
PreferredSite(venue) ==
    IF venue = CoolidgeCornerTheatre THEN Some("Coolidge")
    ELSE IF venue = TheBrattle THEN Some("Brattle")
    ELSE IF venue = HarvardFilmArchive THEN Some("Harvard Film Archive")
    ELSE None

DedupKey(s) == <<s.title, s.venue, s.date, s.time>>

\* The iteration with the test of line 282 reduced to its second half: any
\* candidate not from "Screen Boston" replaces the record kept so far.
DedupStepEager(seen, screening) ==
    LET hit == {i \in 1..Len(seen) : DedupKey(seen[i]) = DedupKey(screening)}
    IN  IF hit = {} THEN Append(seen, screening)
        ELSE LET i        == CHOOSE i \in hit : TRUE
                 existing == seen[i]
             IN  IF existing.source_site = screening.source_site THEN seen
                 ELSE IF Some(screening.source_site) = PreferredSite(screening.venue)
                 THEN [seen EXCEPT ![i] = screening]
                 ELSE IF screening.source_site # SCREEN_BOSTON
                 THEN [seen EXCEPT ![i] = screening]
                 ELSE seen

\* One iteration of the loop: seen (its values, in insertion order) after screening.
DedupStep(seen, screening) ==
    LET hit == {i \in 1..Len(seen) : DedupKey(seen[i]) = DedupKey(screening)}
    IN  IF hit = {} THEN Append(seen, screening)
        ELSE LET i        == CHOOSE i \in hit : TRUE
                 existing == seen[i]
             IN  IF existing.source_site = screening.source_site THEN seen
                 ELSE IF Some(screening.source_site) = PreferredSite(screening.venue)
                 THEN [seen EXCEPT ![i] = screening]
                 ELSE IF /\ existing.source_site = SCREEN_BOSTON
                         /\ screening.source_site # SCREEN_BOSTON
                 THEN [seen EXCEPT ![i] = screening]
                 ELSE seen

RECURSIVE _deduplicate_screenings(_)
_deduplicate_screenings(screenings) ==
    IF screenings = << >> THEN << >>
    ELSE DedupStep(_deduplicate_screenings(SubSeq(screenings, 1, Len(screenings) - 1)),
                   screenings[Len(screenings)])

\* Lines 331-336 of _do_scrape alone: merge and deduplicate, the sort left out.
ReconcileUnsorted(screenings) ==
    _deduplicate_screenings(_merge_double_screenings(screenings))

\* Lines 331-342 of _do_scrape: merge, deduplicate, sort.
Reconcile(screenings) ==
    SortByDateTime(_deduplicate_screenings(_merge_double_screenings(screenings)))


(***************************************************************************)
(* Candidate lists handed to the reconciler                                *)
(***************************************************************************)
MaxLen == 3

SourceUrl(site) ==
    IF site = SCREEN_BOSTON THEN "https://screenboston.com/"
    ELSE IF site = "Coolidge" THEN "https://coolidge.org/films-events/now-playing"
    ELSE IF site = "Brattle" THEN "https://brattlefilm.org/coming-soon/"
    ELSE "https://harvardfilmarchive.org/calendar"

Cand(title, venue, date, time, site, runtime, director, extra, special) ==
    Screening(title, venue, date, time, SourceUrl(site), site,
              runtime, director, None, extra, special)

\* Candidates around one venue: a shared slot with distinct and repeated
\* titles, an alias venue string, a "Double feature" tag, other slots and days.
MergeCands ==
    { Cand("A", TheBrattle, 1, 1140, "Brattle", Some(90), Some("X"), Some("e1"),
           Some(<<"35mm">>)),
      Cand("B", TheBrattle, 1, 1140, "Brattle", Some(100), Some("Y"), None,
           Some(<<"Double feature", "35mm">>)),
      Cand("B", TheBrattle, 1, 1140, SCREEN_BOSTON, None, Some("X"), Some("e2"), None),
      Cand("A", BrattleAlias, 1, 1140, SCREEN_BOSTON, None, None, None, None),
      Cand("C", TheBrattle, 1, 1290, "Brattle", Some(80), None, None,
           Some(<<"Double feature">>)),
      Cand("D", CoolidgeCornerTheatre, 2, 1140, "Coolidge", None, None, None, None),
      Cand("E", TheBrattle, 1, 1020, "Brattle", Some(70), Some("X"), None, None),
      Cand("F", TheBrattle, 1, 1380, "Brattle", Some(60), None, None, None) }

\* Candidates with one identity from several source sites, at a venue with a
\* preferred site and at one without.
DedupCands ==
    { Cand("Dune", CoolidgeCornerTheatre, 1, 1140, SCREEN_BOSTON, None, None, None, None),
      Cand("Dune", CoolidgeCornerTheatre, 1, 1140, SCREEN_BOSTON, Some(160), None, None, None),
      Cand("Dune", CoolidgeCornerTheatre, 1, 1140, "Coolidge", Some(155), None, None, None),
      Cand("Dune", CoolidgeCornerTheatre, 1, 1140, "Coolidge", None, None, None, None),
      Cand("Dune", CoolidgeCornerTheatre, 1, 1140, "Brattle", Some(150), None, None, None),
      Cand("Dune", CoolidgeCornerTheatre, 1, 1140, "Harvard Film Archive", None, None,
           None, None),
      Cand("Dune", SomervilleTheatre, 1, 1140, SCREEN_BOSTON, None, None, None, None),
      Cand("Dune", SomervilleTheatre, 1, 1140, "Brattle", None, None, None, None),
      Cand("Dune", CoolidgeCornerTheatre, 1, 1020, SCREEN_BOSTON, None, None, None, None) }

SeqsUpTo(S, n) == UNION {[1..k -> S] : k \in 0..n}

CandidateLists == SeqsUpTo(MergeCands, MaxLen) \cup SeqsUpTo(DedupCands, MaxLen)

(***************************************************************************)
(* The reconciler, applied to every candidate list                         *)
(***************************************************************************)
ReconInit ==
    /\ jobs = << >>
    /\ thr = << >>
    /\ resp = NoResp
    /\ ScrapersIdle
    /\ rin \in CandidateLists
    /\ rcur = rin
    /\ rstage = "input"

\* Pass 1 of _merge_double_screenings (lines 160-208).
RunMergePass1 ==
    /\ rstage = "input"
    /\ rcur' = MergePass1(rcur)
    /\ rstage' = "pass1"
    /\ UNCHANGED <<rin, jvars, svars>>

\* Pass 2 of _merge_double_screenings (lines 210-234).
RunMergePass2 ==
    /\ rstage = "pass1"
    /\ rcur' = MergePass2(rcur)
    /\ rstage' = "merged"
    /\ UNCHANGED <<rin, jvars, svars>>

\* _do_scrape line 336.
RunDeduplicate ==
    /\ rstage = "merged"
    /\ rcur' = _deduplicate_screenings(rcur)
    /\ rstage' = "deduped"
    /\ UNCHANGED <<rin, jvars, svars>>

\* _do_scrape line 342.
RunSort ==
    /\ rstage = "deduped"
    /\ rcur' = SortByDateTime(rcur)
    /\ rstage' = "sorted"
    /\ UNCHANGED <<rin, jvars, svars>>

\* _deduplicate_screenings called on the candidate list itself.
CallDeduplicate ==
    /\ rstage = "input"
    /\ rcur' = _deduplicate_screenings(rin)
    /\ rstage' = "dedup_only"
    /\ UNCHANGED <<rin, jvars, svars>>

ReconNext ==
    \/ RunMergePass1
    \/ RunMergePass2
    \/ RunDeduplicate
    \/ RunSort
    \/ CallDeduplicate

ReconSpec == ReconInit /\ [][ReconNext]_vars


(***************************************************************************)
(* Binary64 arithmetic of  int((idx / total_scrapers) * 90)                *)
(*                                                                         *)
(* A positive float is [m |-> 53 bits, most significant first and 1,       *)
(* e |-> the exponent of that first bit]; its value is the sum of          *)
(* m[i] * 2^(e - (i - 1)).  Every operation rounds to nearest, ties to     *)
(* even, as IEEE 754 does.                                                 *)
(***************************************************************************)
MantissaBits == 53

\* The first n bits of the binary fraction r / d, for 0 <= r < d.
RECURSIVE FractionBits(_, _, _)
FractionBits(r, d, n) ==
    IF n = 0 THEN << >>
    ELSE IF 2 * r >= d THEN <<1>> \o FractionBits(2 * r - d, d, n - 1)
    ELSE <<0>> \o FractionBits(2 * r, d, n - 1)

\* The remainder left after those n bits.
RECURSIVE FractionRest(_, _, _)
FractionRest(r, d, n) ==
    IF n = 0 THEN r
    ELSE FractionRest(IF 2 * r >= d THEN 2 * r - d ELSE 2 * r, d, n - 1)

\* The number of zero bits before the first 1 of the fraction r / d, 0 < r < d.
RECURSIVE LeadingZeros(_, _)
LeadingZeros(r, d) == IF 2 * r >= d THEN 0 ELSE 1 + LeadingZeros(2 * r, d)

\* bits + 1, as a sequence one longer when the carry runs out of the top.
RECURSIVE Increment(_)
Increment(bits) ==
    IF bits = << >> THEN <<1>>
    ELSE IF bits[Len(bits)] = 0 THEN SubSeq(bits, 1, Len(bits) - 1) \o <<1>>
    ELSE Increment(SubSeq(bits, 1, Len(bits) - 1)) \o <<0>>

\* bits (first bit 1, exponent e) rounded to MantissaBits bits.
RoundToFloat(bits, e, sticky) ==
    IF Len(bits) <= MantissaBits
    THEN [m |-> bits \o [i \in 1..(MantissaBits - Len(bits)) |-> 0], e |-> e]
    ELSE LET m     == SubSeq(bits, 1, MantissaBits)
             guard == bits[MantissaBits + 1]
             rest  == \/ sticky
                      \/ \E i \in (MantissaBits + 2)..Len(bits) : bits[i] = 1
             up    == guard = 1 /\ (rest \/ m[MantissaBits] = 1)
             inc   == Increment(m)
         IN  IF ~up THEN [m |-> m, e |-> e]
             ELSE IF Len(inc) > MantissaBits
             THEN [m |-> SubSeq(inc, 1, MantissaBits), e |-> e + 1]
             ELSE [m |-> inc, e |-> e]

\* The float a / b for integers 0 < a < b.
FloatDiv(a, b) ==
    LET z    == LeadingZeros(a, b)
        bits == FractionBits(a, b, z + MantissaBits + 1)
    IN  RoundToFloat(SubSeq(bits, z + 1, Len(bits)), -(z + 1),
                     FractionRest(a, b, z + MantissaBits + 1) # 0)

\* The binary digits of the natural number n, most significant first.
RECURSIVE ToBits(_)
ToBits(n) == IF n = 0 THEN << >> ELSE ToBits(n \div 2) \o <<n % 2>>

\* The digits of (bits as a number) * k + carry.
RECURSIVE TimesSmall(_, _, _)
TimesSmall(bits, k, carry) ==
    IF carry = 0 /\ bits = << >> THEN << >>
    ELSE IF bits = << >> THEN ToBits(carry)
    ELSE LET t == bits[Len(bits)] * k + carry
         IN  TimesSmall(SubSeq(bits, 1, Len(bits) - 1), k, t \div 2) \o <<t % 2>>

\* The float x * k for a positive float x and an integer k >= 1.
FloatTimes(x, k) ==
    LET p == TimesSmall(x.m, k, 0)
    IN  RoundToFloat(p, x.e + (Len(p) - MantissaBits), FALSE)

RECURSIVE BitsToInt(_)
BitsToInt(bits) ==
    IF bits = << >> THEN 0
    ELSE 2 * BitsToInt(SubSeq(bits, 1, Len(bits) - 1)) + bits[Len(bits)]

\* int(x): truncation of a positive float.
FloatToInt(x) == IF x.e < 0 THEN 0 ELSE BitsToInt(SubSeq(x.m, 1, x.e + 1))

\* (idx / total_scrapers) * 90 rounded to the nearest integer, halves up.
ProgressAtRounded(idx, total_scrapers) ==
    (2 * idx * 90 + total_scrapers) \div (2 * total_scrapers)

\* int((idx / total_scrapers) * 90), for 0 <= idx < total_scrapers.
ProgressAt(idx, total_scrapers) ==
    IF idx = 0 THEN 0 ELSE FloatToInt(FloatTimes(FloatDiv(idx, total_scrapers), 90))


(***************************************************************************)
(* The job orchestrator: start_scrape_job, _do_scrape                      *)
(***************************************************************************)
MaxJobs == 2

\* The (name, scraper) pairs of _do_scrape, in the order it appends them.
SOURCE_ORDER == <<"Screen Boston", "Coolidge", "HFA", "Brattle">>

\* ScraperConfig: the four enable flags.
AllConfigs ==
    [enable_screen_boston : BOOLEAN, enable_coolidge : BOOLEAN,
     enable_hfa : BOOLEAN, enable_brattle : BOOLEAN]

Enabled(config, name) ==
    IF name = "Screen Boston" THEN config.enable_screen_boston
    ELSE IF name = "Coolidge" THEN config.enable_coolidge
    ELSE IF name = "HFA" THEN config.enable_hfa
    ELSE config.enable_brattle

\* scrapers after lines 304-312.
BuildScrapers(config) ==
    LET Keep(name) == Enabled(config, name)
    IN  SelectSeq(SOURCE_ORDER, Keep)

\* What the sites list while the jobs run: the list scraper.scrape() returns.
ScrapeResult(name) ==
    IF name = "Screen Boston" THEN
        <<Cand("Dune", CoolidgeCornerTheatre, 1, 1140, SCREEN_BOSTON, None, None, None, None)>>
    ELSE IF name = "Coolidge" THEN
        <<Cand("Dune", CoolidgeCornerTheatre, 1, 1140, "Coolidge", Some(155), None, None, None),
          Cand("D", CoolidgeCornerTheatre, 2, 1140, "Coolidge", None, None, None, None)>>
    ELSE IF name = "HFA" THEN
        <<Cand("H", HarvardFilmArchive, 1, 1080, "Harvard Film Archive", None, Some("X"),
               None, None)>>
    ELSE
        <<Cand("A", TheBrattle, 1, 1140, "Brattle", Some(90), Some("X"), Some("e1"),
               Some(<<"35mm">>))>>

\* Whether scraper.scrape() can raise.  ScreenBostonScraper, BrattleScraper and
\* HarvardFilmArchiveScraper wrap their whole body in try/except Exception and
\* return what they have; CoolidgeScraper.scrape() has no such handler.
CanRaise(name) == name = "Coolidge"

\* str(e) of an exception that escapes the per-source try.
ExcTexts == {"boom"}

\* screenings after the loop over scrapers when the sources in failed raised.
RECURSIVE Gathered(_, _)
Gathered(scrapers, failed) ==
    IF scrapers = << >> THEN << >>
    ELSE (IF Head(scrapers) \in failed THEN << >> ELSE ScrapeResult(Head(scrapers)))
         \o Gathered(Tail(scrapers), failed)

\* The candidate lists a job can hand to lines 332-342.
JobInputs ==
    {Gathered(BuildScrapers(c), f) :
        c \in AllConfigs,
        f \in SUBSET {SOURCE_ORDER[n] : n \in {m \in 1..Len(SOURCE_ORDER) :
                                                  CanRaise(SOURCE_ORDER[m])}}}

\* Lines 332-342 on each of those lists, computed once.
ReconcileTable == [xs \in JobInputs |-> Reconcile(xs)]

ReconcileOf(xs) ==
    IF xs \in DOMAIN ReconcileTable THEN ReconcileTable[xs] ELSE Reconcile(xs)

\* Line 320 for each position of each loop, computed once.
ProgressTable ==
    [total \in 1..Len(SOURCE_ORDER) |->
        [idx \in 0..(total - 1) |-> ProgressAt(idx, total)]]

ProgressOf(idx, total) ==
    IF total \in DOMAIN ProgressTable /\ idx \in DOMAIN ProgressTable[total]
    THEN ProgressTable[total][idx]
    ELSE ProgressAt(idx, total)

JobStatus(job_id, status, progress, message) ==
    [job_id |-> job_id, status |-> status, progress |-> progress,
     message |-> message, screenings |-> << >>, error |-> None]

JobIds == DOMAIN jobs

\* An id generator that repeats itself: an id already issued, if there is one.
StaleJobId == IF JobIds = {} THEN Cardinality(JobIds) + 1 ELSE CHOOSE j \in JobIds : TRUE

\* uuid.uuid4(): an id no earlier call returned.
FreshJobId == Cardinality(JobIds) + 1

\* f with the entry k -> v added.
Put(f, k, v) == [x \in (DOMAIN f) \cup {k} |-> IF x = k THEN v ELSE f[x]]

JInit ==
    /\ jobs = << >>
    /\ thr = << >>
    /\ resp = NoResp

\* start_scrape_job(config): registers the job and starts its thread.
start_scrape_job(config) ==
    LET job_id == FreshJobId
    IN  /\ jobs' = Put(jobs, job_id, JobStatus(job_id, "pending", 0, "Starting scrape..."))
        /\ thr' = Put(thr, job_id,
                      [pc |-> "l292", config |-> config, scrapers |-> << >>, idx |-> 0,
                       screenings |-> << >>, failed |-> {}, exc |-> None])
        /\ resp' = [op |-> "scrape", job_id |-> job_id, code |-> 200,
                    body |-> [job_id |-> job_id, status |-> "pending",
                              message |-> "Scraping started"]]
        /\ UNCHANGED <<rvars, svars>>

\* One step of thread j from position at: the job field written, the locals set.
Step(j, at, job, locals) ==
    /\ j \in DOMAIN thr
    /\ thr[j].pc = at
    /\ jobs' = [jobs EXCEPT ![j] = job]
    /\ thr' = [thr EXCEPT ![j] = locals]
    /\ resp' = NoResp
    /\ UNCHANGED <<rvars, svars>>

\* Lines 292-297: job = _jobs.get(job_id); job.status = "running".
L297(j) ==
    /\ j \in DOMAIN thr /\ thr[j].pc = "l292"
    /\ IF j \in DOMAIN jobs
       THEN Step(j, "l292", [jobs[j] EXCEPT !.status = "running"],
                 [thr[j] EXCEPT !.pc = "l298"])
       ELSE /\ thr' = [thr EXCEPT ![j].pc = "done"]
            /\ resp' = NoResp
            /\ UNCHANGED <<jobs, rvars, svars>>

\* Line 298: job.progress = 0.
L298(j) ==
    Step(j, "l298", [jobs[j] EXCEPT !.progress = 0], [thr[j] EXCEPT !.pc = "l299"])

\* The position after the loop body for idx, or after the loop.
LoopAt(n, idx) == IF idx < n THEN "l319" ELSE "l332"

\* Lines 299-314: job.message = ...; screenings = []; the scrapers list is built.
L299(j) ==
    LET scrapers == BuildScrapers(thr[j].config)
    IN  Step(j, "l299", [jobs[j] EXCEPT !.message = "Initializing scrapers..."],
             [thr[j] EXCEPT !.pc = LoopAt(Len(scrapers), 0), !.scrapers = scrapers,
                            !.idx = 0, !.screenings = << >>])

\* Line 319: job.message = f"Scraping {name}...".
L319(j) ==
    Step(j, "l319",
         [jobs[j] EXCEPT !.message = "Scraping " \o thr[j].scrapers[thr[j].idx + 1] \o "..."],
         [thr[j] EXCEPT !.pc = "l320"])

\* Line 320: job.progress = int((idx / total_scrapers) * 90).
L320(j) ==
    Step(j, "l320",
         [jobs[j] EXCEPT !.progress = ProgressOf(thr[j].idx, Len(thr[j].scrapers))],
         [thr[j] EXCEPT !.pc = "l323"])

\* The loop index after the body for idx ended (normally or by continue).
NextIdx(idx) == idx + 1

\* Lines 323-324: results = scraper.scrape(); screenings.extend(results).
L323(j) ==
    LET name == thr[j].scrapers[thr[j].idx + 1]
        idx  == NextIdx(thr[j].idx)
    IN  Step(j, "l323", jobs[j],
             [thr[j] EXCEPT !.pc = LoopAt(Len(thr[j].scrapers), idx), !.idx = idx,
                            !.screenings = @ \o ScrapeResult(name)])

\* Lines 323, 327-329 with break in place of continue: the loop is left.
L323RaiseBreak(j) ==
    LET name == thr[j].scrapers[thr[j].idx + 1]
    IN  /\ j \in DOMAIN thr /\ thr[j].pc = "l323"
        /\ CanRaise(name)
        /\ Step(j, "l323", jobs[j],
                [thr[j] EXCEPT !.pc = "l332", !.idx = NextIdx(@),
                               !.failed = @ \cup {name}])

\* Lines 323, 327-329: scraper.scrape() raises; the error is logged; continue.
L323Raise(j) ==
    LET name == thr[j].scrapers[thr[j].idx + 1]
        idx  == NextIdx(thr[j].idx)
    IN  /\ j \in DOMAIN thr /\ thr[j].pc = "l323"
        /\ CanRaise(name)
        /\ Step(j, "l323", jobs[j],
                [thr[j] EXCEPT !.pc = LoopAt(Len(thr[j].scrapers), idx), !.idx = idx,
                               !.failed = @ \cup {name}])

\* Lines 332-342: merge, deduplicate, sort.
L332(j) ==
    Step(j, "l332", jobs[j],
         [thr[j] EXCEPT !.pc = "l345", !.screenings = ReconcileOf(@)])

\* Lines 332-342 raise after the candidates collected so far were stored on
\* the job.
L332RaiseStoring(j, e) ==
    Step(j, "l332", [jobs[j] EXCEPT !.screenings = thr[j].screenings],
         [thr[j] EXCEPT !.pc = "l354", !.exc = Some(e)])

\* Lines 332-342 raise: control goes to the outer except with e.
L332Raise(j, e) ==
    Step(j, "l332", jobs[j], [thr[j] EXCEPT !.pc = "l354", !.exc = Some(e)])

\* Line 345 left out: the thread goes on to line 346 with the status as it is.
L345Skipped(j) ==
    Step(j, "l345", jobs[j], [thr[j] EXCEPT !.pc = "l346"])

\* Line 345: job.status = "complete".
L345(j) ==
    Step(j, "l345", [jobs[j] EXCEPT !.status = "complete"], [thr[j] EXCEPT !.pc = "l346"])

\* Line 346: job.progress = 100.
L346(j) ==
    Step(j, "l346", [jobs[j] EXCEPT !.progress = 100], [thr[j] EXCEPT !.pc = "l347"])

\* Line 347: job.message = f"Found {len(screenings)} screenings".
L347(j) ==
    Step(j, "l347",
         [jobs[j] EXCEPT !.message =
              "Found " \o ToString(Len(thr[j].screenings)) \o " screenings"],
         [thr[j] EXCEPT !.pc = "l348"])

\* Line 348 followed by a statement that raises before the try block ends:
\* control goes to the outer except.
L348ThenRaise(j) ==
    Step(j, "l348", [jobs[j] EXCEPT !.screenings = thr[j].screenings],
         [thr[j] EXCEPT !.pc = "l354", !.exc = Some("boom")])

\* Line 348: job.screenings = screenings; the thread ends.
L348(j) ==
    Step(j, "l348", [jobs[j] EXCEPT !.screenings = thr[j].screenings],
         [thr[j] EXCEPT !.pc = "done"])

\* Line 354: job.status = "error".
L354(j) ==
    Step(j, "l354", [jobs[j] EXCEPT !.status = "error"], [thr[j] EXCEPT !.pc = "l355"])

\* Line 355: job.error = str(e).
L355(j) ==
    Step(j, "l355", [jobs[j] EXCEPT !.error = thr[j].exc], [thr[j] EXCEPT !.pc = "l356"])

\* Line 356: job.message = f"Error: {e}"; the thread ends.
L356(j) ==
    Step(j, "l356", [jobs[j] EXCEPT !.message = "Error: " \o thr[j].exc[1]],
         [thr[j] EXCEPT !.pc = "done"])

\* One step of the _do_scrape thread of job j.
_do_scrape(j) ==
    \/ L297(j)
    \/ L298(j)
    \/ L299(j)
    \/ L319(j)
    \/ L320(j)
    \/ L323(j)
    \/ L323Raise(j)
    \/ L332(j)
    \/ \E e \in ExcTexts : L332Raise(j, e)
    \/ L345(j)
    \/ L346(j)
    \/ L347(j)
    \/ L348(j)
    \/ L354(j)
    \/ L355(j)
    \/ L356(j)

(***************************************************************************)
(* The HTTP handlers of routes.py that read a job                          *)
(***************************************************************************)
\* The ids a request may carry: issued, not yet issued, never issued.
RequestIds == 1..(MaxJobs + 1)

\* get_job_status(job_id): _jobs.get(job_id), an Optional[JobStatus].
get_job_status(job_id) == IF job_id \in DOMAIN jobs THEN Some(jobs[job_id]) ELSE None

\* serialize_screening: isoformat() and strftime() keep the date and the time,
\* unique_id is the digest of the identity key.
serialize_screening(screening) ==
    [title |-> screening.title, venue |-> screening.venue,
     date |-> screening.date, time |-> screening.time,
     source_url |-> screening.source_url, source_site |-> screening.source_site,
     runtime_minutes |-> screening.runtime_minutes, director |-> screening.director,
     year |-> screening.year, extra |-> screening.extra,
     special_attributes |->
         IF TruthyList(screening.special_attributes)
         THEN screening.special_attributes[1] ELSE << >>,
     unique_id |-> DedupKey(screening)]

SerializeAll(screenings) ==
    [i \in 1..Len(screenings) |-> serialize_screening(screenings[i])]

\* serialize_job_status(job): the keys error, screenings and count are optional.
serialize_job_status(job) ==
    [job_id |-> job.job_id, status |-> job.status, progress |-> job.progress,
     message |-> job.message]
    @@ (IF TruthyStr(job.error) THEN [error |-> job.error[1]] ELSE << >>)
    @@ (IF job.status = "complete" /\ job.screenings # << >>
        THEN [screenings |-> SerializeAll(job.screenings),
              count |-> Len(job.screenings)]
        ELSE << >>)

\* A handler that leaves a mark in the record of the job it was asked about.
RespondAndMark(op, job_id, code, body) ==
    /\ resp' = [op |-> op, job_id |-> job_id, code |-> code, body |-> body]
    /\ jobs' = [j \in DOMAIN jobs |->
                   IF j = job_id THEN [jobs[j] EXCEPT !.message = "polled"] ELSE jobs[j]]
    /\ UNCHANGED <<thr, rvars, svars>>

\* A handler returns: the response is sent, no record is written.
Respond(op, job_id, code, body) ==
    /\ resp' = [op |-> op, job_id |-> job_id, code |-> code, body |-> body]
    /\ UNCHANGED <<jobs, thr, rvars, svars>>

NotComplete(job) == [error |-> "Job not complete (status: " \o job.status \o ")"]

\* GET /api/scrape/<job_id>/status
scrape_status(job_id) ==
    LET job == get_job_status(job_id)
    IN  IF job = None
        THEN Respond("scrape_status", job_id, 404, [error |-> "Job not found"])
        ELSE Respond("scrape_status", job_id, 200, serialize_job_status(job[1]))

\* GET /api/screenings?job_id=<job_id>, without filters
get_screenings(job_id) ==
    LET job == get_job_status(job_id)
    IN  IF job = None
        THEN Respond("get_screenings", job_id, 404, [error |-> "Job not found"])
        ELSE IF job[1].status # "complete"
        THEN Respond("get_screenings", job_id, 400, NotComplete(job[1]))
        ELSE LET filtered == SortByDateTime(job[1].screenings)
             IN  Respond("get_screenings", job_id, 200,
                         [screenings |-> SerializeAll(filtered), count |-> Len(filtered)])

\* sorted(set(s.venue for s in screenings)), as the strictly increasing list.
RECURSIVE SortedVenues(_)
SortedVenues(venues) ==
    IF venues = {} THEN << >>
    ELSE LET least == CHOOSE v \in venues : \A w \in venues \ {v} : StrLess(v, w)
         IN  <<least>> \o SortedVenues(venues \ {least})

\* GET /api/venues without the test of job.status.
get_venues_any_status(job_id) ==
    LET job == get_job_status(job_id)
    IN  IF job = None
        THEN Respond("get_venues", job_id, 404, [error |-> "Job not found"])
        ELSE Respond("get_venues", job_id, 200,
                     [venues |-> SortedVenues({job[1].screenings[i].venue :
                                                   i \in 1..Len(job[1].screenings)})])

\* GET /api/venues?job_id=<job_id>
get_venues(job_id) ==
    LET job == get_job_status(job_id)
    IN  IF job = None
        THEN Respond("get_venues", job_id, 404, [error |-> "Job not found"])
        ELSE IF job[1].status # "complete"
        THEN Respond("get_venues", job_id, 400, NotComplete(job[1]))
        ELSE Respond("get_venues", job_id, 200,
                     [venues |-> SortedVenues({job[1].screenings[i].venue :
                                                   i \in 1..Len(job[1].screenings)})])

(***************************************************************************)
(* The web application                                                     *)
(***************************************************************************)
WebIdle ==
    /\ JInit
    /\ rin = << >>
    /\ rcur = << >>
    /\ rstage = "idle"

Init ==
    /\ WebIdle
    /\ ScrapersIdle

\* The configuration of a request that names no flag: every source enabled.
Configs ==
    {c \in AllConfigs : /\ c.enable_screen_boston /\ c.enable_coolidge
                        /\ c.enable_hfa /\ c.enable_brattle}

\* POST /api/scrape, while the registry holds fewer than MaxJobs jobs.
scrape(config) ==
    /\ Cardinality(JobIds) < MaxJobs
    /\ start_scrape_job(config)

\* The first POST /api/scrape of the process.
first_scrape(config) ==
    /\ JobIds = {}
    /\ start_scrape_job(config)

\* Up to MaxJobs jobs run side by side.
Next ==
    \/ \E config \in Configs : scrape(config)
    \/ \E j \in 1..MaxJobs : _do_scrape(j)

Spec == Init /\ [][Next]_vars

\* Every thread that can take a step eventually takes one.
FairSpec == Spec /\ \A j \in 1..MaxJobs : WF_vars(_do_scrape(j))

\* One job, under every configuration, polled by readers while it runs.
JobNext ==
    \/ \E config \in AllConfigs : first_scrape(config)
    \/ \E j \in 1..MaxJobs : _do_scrape(j)
    \/ \E job_id \in RequestIds : scrape_status(job_id)
    \/ \E job_id \in RequestIds : get_screenings(job_id)
    \/ \E job_id \in RequestIds : get_venues(job_id)

JobSpec == Init /\ [][JobNext]_vars

\* The configuration of a request that enables the Coolidge scraper alone.
CoolidgeOnly ==
    {c \in AllConfigs : /\ c.enable_coolidge /\ ~c.enable_screen_boston
                         /\ ~c.enable_hfa /\ ~c.enable_brattle}

\* Up to MaxJobs jobs of one source each run side by side while readers poll
\* them.
PollNext ==
    \/ \E config \in CoolidgeOnly : scrape(config)
    \/ \E j \in 1..MaxJobs : _do_scrape(j)
    \/ \E job_id \in RequestIds : scrape_status(job_id)
    \/ \E job_id \in RequestIds : get_screenings(job_id)
    \/ \E job_id \in RequestIds : get_venues(job_id)

PollSpec == Init /\ [][PollNext]_vars

(***************************************************************************)
(* The Coolidge scraper: _get_detail_page_info and its cache               *)
(***************************************************************************)
\* Per-date workers of one scrape that run side by side.
MaxWorkers == 2

\* Film sections with a detail link that one worker parses.
MaxCalls == 2

Titles == {"A", "B"}

DateWorkers == 1..MaxWorkers

\* Line 109: the href of the film's link, made absolute.
DetailUrl(title) == "https://coolidge.org/films/" \o title

\* Line 432: cache_key = f"{title}|{detail_url}".
CacheKey(title, detail_url) == title \o "|" \o detail_url

CacheKeys == {CacheKey(t, DetailUrl(t)) : t \in Titles}

\* Lines 457-460: the (director, year) read from the film's detail page.
DetailPage(title) == <<Some("Director of " \o title), Some(1999)>>

\* A CoolidgeScraper after __init__ (lines 29-33), its workers about to parse.
CacheInit ==
    /\ WebIdle
    /\ CallIdle
    /\ PoolIdle
    /\ FetchIdle
    /\ WindowIdle
    /\ dcache = << >>
    /\ dlock = 0
    /\ dwork = [w \in DateWorkers |->
                   [pc |-> "parse", calls |-> 0, title |-> "", cache_key |-> "",
                    director |-> None, year |-> None, ret |-> None]]
    /\ dlog = [k \in CacheKeys |-> [miss |-> 0, fetch |-> 0, write |-> 0]]

\* One step of worker w from position at.
DetailStep(w, at, locals) ==
    /\ dwork[w].pc = at
    /\ dwork' = [dwork EXCEPT ![w] = locals]
    /\ UNCHANGED <<wvars, pool, fetch, win, call>>

\* dlog with one more event of the kind named by field for the worker's key.
Logged(w, field) ==
    [dlog EXCEPT ![dwork[w].cache_key] =
        IF field = "miss" THEN [@ EXCEPT !.miss = @ + 1]
        ELSE IF field = "fetch" THEN [@ EXCEPT !.fetch = @ + 1]
        ELSE [@ EXCEPT !.write = @ + 1]]

\* Lines 152-153 and 432: a film section without director and year; the call.
G432(w, title) ==
    /\ dwork[w].calls < MaxCalls
    /\ DetailStep(w, "parse",
                  [dwork[w] EXCEPT !.pc = "l433", !.calls = @ + 1, !.title = title,
                                   !.cache_key = CacheKey(title, DetailUrl(title)),
                                   !.director = None, !.year = None, !.ret = None])
    /\ UNCHANGED <<dcache, dlock, dlog>>

\* Entering a "with self._detail_cache_lock:" block (lines 433, 462, 467).
Acquire(w, at, to) ==
    /\ dlock = 0
    /\ dlock' = w
    /\ DetailStep(w, at, [dwork[w] EXCEPT !.pc = to])
    /\ UNCHANGED <<dcache, dlog>>

\* Lines 434-435, and leaving the block: a hit returns the entry.
G434(w) ==
    /\ dlock = w
    /\ dlock' = 0
    /\ IF dwork[w].cache_key \in DOMAIN dcache
       THEN /\ DetailStep(w, "l434", [dwork[w] EXCEPT !.pc = "parse",
                                                      !.ret = Some(dcache[dwork[w].cache_key])])
            /\ UNCHANGED <<dcache, dlog>>
       ELSE /\ DetailStep(w, "l434", [dwork[w] EXCEPT !.pc = "l452"])
            /\ dlog' = Logged(w, "miss")
            /\ UNCHANGED dcache

\* Lines 437-460: the request for the detail page succeeds and is parsed.
G452(w) ==
    /\ DetailStep(w, "l452", [dwork[w] EXCEPT !.pc = "l462",
                                              !.director = DetailPage(dwork[w].title)[1],
                                              !.year = DetailPage(dwork[w].title)[2]])
    /\ dlog' = Logged(w, "fetch")
    /\ UNCHANGED <<dcache, dlock>>

\* Lines 437-452 and 465-466: the request raises.
G452Raise(w) ==
    /\ DetailStep(w, "l452", [dwork[w] EXCEPT !.pc = "l467"])
    /\ dlog' = Logged(w, "fetch")
    /\ UNCHANGED <<dcache, dlock>>

\* Line 463, and leaving the block: the entry is stored.
G463(w) ==
    /\ dlock = w
    /\ dlock' = 0
    /\ DetailStep(w, "l463", [dwork[w] EXCEPT !.pc = "l470"])
    /\ dcache' = Put(dcache, dwork[w].cache_key, <<dwork[w].director, dwork[w].year>>)
    /\ dlog' = Logged(w, "write")

\* Line 468, and leaving the block: (None, None) is stored.
G468(w) ==
    /\ dlock = w
    /\ dlock' = 0
    /\ DetailStep(w, "l468", [dwork[w] EXCEPT !.pc = "l470"])
    /\ dcache' = Put(dcache, dwork[w].cache_key, <<None, None>>)
    /\ dlog' = Logged(w, "write")

\* Line 470: return director, year.
G470(w) ==
    /\ DetailStep(w, "l470", [dwork[w] EXCEPT !.pc = "parse",
                                              !.ret = Some(<<dwork[w].director, dwork[w].year>>)])
    /\ UNCHANGED <<dcache, dlock, dlog>>

_get_detail_page_info(w) ==
    \/ Acquire(w, "l433", "l434")
    \/ G434(w)
    \/ G452(w)
    \/ G452Raise(w)
    \/ Acquire(w, "l462", "l463")
    \/ G463(w)
    \/ Acquire(w, "l467", "l468")
    \/ G468(w)
    \/ G470(w)

\* The per-date workers of one scrape, each looking up the films of its page.
CacheNext ==
    \/ \E w \in DateWorkers, title \in Titles : G432(w, title)
    \/ \E w \in DateWorkers : _get_detail_page_info(w)

CacheSpec == CacheInit /\ [][CacheNext]_vars

(***************************************************************************)
(* The Coolidge scraper: scrape() and its thread pool                      *)
(*                                                                         *)
(* The per-date tasks are interchangeable here, so the state counts them:  *)
(* queued (submitted, not started), running (inside _scrape_date), ok and  *)
(* exc (finished, not yet yielded by as_completed), collected and logged.  *)
(***************************************************************************)
\* Line 18.
MAX_DATE_WORKERS == 10

\* The largest config.days_ahead of a scrape.
MaxDaysAhead == 10

Min(a, b) == IF a < b THEN a ELSE b

\* models.py lines 91-96: len(list(config.date_range())).
NumDates(days_ahead) == IF days_ahead < 0 THEN 0 ELSE days_ahead + 1

\* A pool whose size is the number of dates, without the cap.
PoolSizeUncapped(n) == IF n = 0 THEN 1 ELSE n

\* Line 39: workers = min(MAX_DATE_WORKERS, len(dates)) or 1.
PoolSize(n) == IF Min(MAX_DATE_WORKERS, n) = 0 THEN 1 ELSE Min(MAX_DATE_WORKERS, n)

\* Lines 37-41: scrape() has built dates and entered the with block.
PoolInit ==
    /\ WebIdle
    /\ CallIdle
    /\ CacheIdle
    /\ FetchIdle
    /\ WindowIdle
    /\ \E days_ahead \in -1..MaxDaysAhead :
           pool = [pc |-> "l42", dates |-> NumDates(days_ahead),
                   workers |-> PoolSize(NumDates(days_ahead)), threads |-> 0,
                   submitted |-> 0, queued |-> 0, running |-> 0, ok |-> 0, exc |-> 0,
                   collected |-> 0, logged |-> 0]

PoolStep(at, new) ==
    /\ pool.pc = at
    /\ pool' = new
    /\ UNCHANGED <<wvars, cvars, fetch, win, call>>

\* Line 42, one date: executor.submit queues the task and starts a thread
\* while there are fewer than max_workers.
P42 ==
    /\ pool.pc = "l42" /\ pool.submitted < pool.dates
    /\ PoolStep("l42", [pool EXCEPT !.submitted = @ + 1, !.queued = @ + 1,
                                    !.threads = Min(@ + 1, pool.workers)])

\* Line 43: every date is submitted; the loop over as_completed begins.
P43 ==
    /\ pool.pc = "l42" /\ pool.submitted = pool.dates
    /\ PoolStep("l42", [pool EXCEPT !.pc = "l43"])

\* A thread of the pool that is free takes the next task: _scrape_date begins.
P57 ==
    /\ pool.pc \in {"l42", "l43"}
    /\ pool.queued > 0 /\ pool.running < pool.threads
    /\ PoolStep(pool.pc, [pool EXCEPT !.queued = @ - 1, !.running = @ + 1])

\* Lines 58-59: _scrape_date returns the screenings of its page.
P59 ==
    /\ pool.pc \in {"l42", "l43"}
    /\ pool.running > 0
    /\ PoolStep(pool.pc, [pool EXCEPT !.running = @ - 1, !.ok = @ + 1])

\* Line 58: get_soup raises in _scrape_date.
P58Raise ==
    /\ pool.pc \in {"l42", "l43"}
    /\ pool.running > 0
    /\ PoolStep(pool.pc, [pool EXCEPT !.running = @ - 1, !.exc = @ + 1])

\* Lines 43-48: as_completed yields a task that returned; its screenings
\* are appended.
P47 ==
    /\ pool.ok > 0
    /\ PoolStep("l43", [pool EXCEPT !.ok = @ - 1, !.collected = @ + 1])

\* Lines 43-50: as_completed yields a task that raised; the failure is logged.
P50 ==
    /\ pool.exc > 0
    /\ PoolStep("l43", [pool EXCEPT !.exc = @ - 1, !.logged = @ + 1])

\* Lines 43 and 52-53: as_completed has yielded every future; the with block
\* is left (shutdown(wait=True)) and scrape() returns.
P53 ==
    /\ pool.collected + pool.logged = pool.dates
    /\ PoolStep("l43", [pool EXCEPT !.pc = "returned"])

PoolNext ==
    \/ P42
    \/ P43
    \/ P57
    \/ P59
    \/ P58Raise
    \/ P47
    \/ P50
    \/ P53

PoolSpec == PoolInit /\ [][PoolNext]_vars

(***************************************************************************)
(* The Coolidge scraper: scrape() over a short window                      *)
(*                                                                         *)
(* The same scrape() as above with the per-date tasks told apart, so that  *)
(* the order and the content of the returned list are part of the state.   *)
(***************************************************************************)
\* The largest config.days_ahead of a short window.
MaxWindow == 2

\* Film sections with a showtime on one date page.
PageLen == 2

\* Lines 61-90: the screenings of the page of date d, in document order.
Page(d) == [n \in 1..PageLen |-> [date |-> d, pos |-> n]]

\* Lines 37-41: scrape() has built dates and entered the with block.
WindowInit ==
    /\ WebIdle
    /\ CallIdle
    /\ CacheIdle
    /\ PoolIdle
    /\ FetchIdle
    /\ \E days_ahead \in -1..MaxWindow :
           win = [pc |-> "l42", dates |-> NumDates(days_ahead),
                  workers |-> PoolSize(NumDates(days_ahead)), threads |-> 0,
                  fut |-> [d \in 1..NumDates(days_ahead) |-> "new"],
                  finished |-> << >>, early |-> {}, yielded |-> {},
                  screenings |-> << >>, logged |-> {}]

WindowStep(at, new) ==
    /\ win.pc = at
    /\ win' = new
    /\ UNCHANGED <<wvars, cvars, pool, fetch, call>>

\* The dates whose future is in state st.
DatesIn(st) == {d \in 1..win.dates : win.fut[d] = st}

\* Line 42, the next date: executor.submit queues the task and starts a
\* thread while there are fewer than max_workers.
W42 ==
    /\ win.pc = "l42" /\ DatesIn("new") # {}
    /\ LET d == CHOOSE x \in DatesIn("new") : \A y \in DatesIn("new") : x <= y
       IN  WindowStep("l42", [win EXCEPT !.fut[d] = "queued",
                                         !.threads = Min(@ + 1, win.workers)])

\* Line 43: as_completed is called; the futures already done are a set.
W43 ==
    /\ win.pc = "l42" /\ DatesIn("new") = {}
    /\ WindowStep("l42", [win EXCEPT !.pc = "l43",
                                     !.early = DatesIn("ok") \cup DatesIn("exc")])

\* A free thread of the pool takes the task at the head of the queue.
W57 ==
    /\ win.pc \in {"l42", "l43"}
    /\ DatesIn("queued") # {} /\ Cardinality(DatesIn("running")) < win.threads
    /\ LET d == CHOOSE x \in DatesIn("queued") : \A y \in DatesIn("queued") : x <= y
       IN  WindowStep(win.pc, [win EXCEPT !.fut[d] = "running"])

\* Lines 58-59: _scrape_date(d) returns the screenings of its page.
W59(d) ==
    /\ win.pc \in {"l42", "l43"}
    /\ d \in DatesIn("running")
    /\ WindowStep(win.pc, [win EXCEPT !.fut[d] = "ok", !.finished = Append(@, d)])

\* Line 58: get_soup raises in _scrape_date(d), the retries exhausted.
W58Raise(d) ==
    /\ win.pc \in {"l42", "l43"}
    /\ d \in DatesIn("running")
    /\ WindowStep(win.pc, [win EXCEPT !.fut[d] = "exc", !.finished = Append(@, d)])

\* The futures as_completed may yield next: any of those done at the call,
\* then the others in the order they finished.
NextYield ==
    IF win.early \ win.yielded # {} THEN win.early \ win.yielded
    ELSE LET later == SelectSeq(win.finished, LAMBDA d : d \notin win.yielded)
         IN  IF later = << >> THEN {} ELSE {later[1]}

\* Lines 43-48: the future of date d is yielded; result() returns and the
\* screenings of the page are appended.
W47(d) ==
    /\ d \in NextYield /\ win.fut[d] = "ok"
    /\ WindowStep("l43", [win EXCEPT !.yielded = @ \cup {d},
                                     !.screenings = @ \o Page(d)])

\* Lines 43-50: the future of date d is yielded; result() raises and the
\* failure is logged.
W50(d) ==
    /\ d \in NextYield /\ win.fut[d] = "exc"
    /\ WindowStep("l43", [win EXCEPT !.yielded = @ \cup {d}, !.logged = @ \cup {d}])

\* Lines 43 and 52-53: every future has been yielded; return screenings.
W53 ==
    /\ win.yielded = 1..win.dates
    /\ WindowStep("l43", [win EXCEPT !.pc = "returned"])

WindowNext ==
    \/ W42
    \/ W43
    \/ W57
    \/ \E d \in 1..(MaxWindow + 1) : W59(d)
    \/ \E d \in 1..(MaxWindow + 1) : W58Raise(d)
    \/ \E d \in 1..(MaxWindow + 1) : W47(d)
    \/ \E d \in 1..(MaxWindow + 1) : W50(d)
    \/ W53

WindowSpec == WindowInit /\ [][WindowNext]_vars

(***************************************************************************)
(* fetch_with_retry (scrapers/base.py)                                     *)
(***************************************************************************)
\* The largest config.max_retries of a call.
MaxRetries == 3

\* The values of config.retry_delay, in seconds.
RetryDelays == {1, 2}

\* The subclasses of requests.RequestException a request fails with.
RequestExceptions == {"ConnectionError", "HTTPError"}

RECURSIVE Pow2(_)
Pow2(k) == IF k = 0 THEN 1 ELSE 2 * Pow2(k - 1)

\* Lines 35-43: the call, with last_exception = None.
FetchInit ==
    /\ WebIdle
    /\ CallIdle
    /\ CacheIdle
    /\ PoolIdle
    /\ WindowIdle
    /\ \E max_retries \in 0..MaxRetries, retry_delay \in RetryDelays :
           fetch = [pc |-> "l44", max_retries |-> max_retries, retry_delay |-> retry_delay,
                    attempt |-> 0, last_exception |-> None, requests |-> 0,
                    sleeps |-> << >>, returned |-> None, raised |-> None]

FetchStep(at, new) ==
    /\ fetch.pc = at
    /\ fetch' = new
    /\ UNCHANGED <<wvars, cvars, pool, win, call>>

\* Line 44: for attempt in range(config.max_retries); fetch.attempt is the
\* next value of the range.
F44 ==
    FetchStep("l44", [fetch EXCEPT !.pc = IF fetch.attempt < fetch.max_retries
                                          THEN "l46" ELSE "l60"])

\* Lines 46-52: the request succeeds; return response.
F52 ==
    FetchStep("l46", [fetch EXCEPT !.pc = "returned", !.requests = @ + 1,
                                   !.returned = Some(fetch.attempt)])

\* Lines 46-54: the request raises e; last_exception = e.
F54(e) ==
    FetchStep("l46", [fetch EXCEPT !.pc = "l55", !.requests = @ + 1,
                                   !.last_exception = Some(<<e, fetch.attempt>>)])

\* Lines 55-58: sleep retry_delay * 2 ** attempt if another attempt remains.
F55 ==
    FetchStep("l55",
        [fetch EXCEPT !.pc = "l44", !.attempt = @ + 1,
                      !.sleeps = IF fetch.attempt < fetch.max_retries - 1
                                 THEN Append(@, fetch.retry_delay * Pow2(fetch.attempt))
                                 ELSE @])

\* Line 60: raise last_exception; raising None is a TypeError.
F60 ==
    FetchStep("l60", [fetch EXCEPT !.pc = "raised",
                                   !.raised = IF fetch.last_exception = None
                                              THEN Some(<<"TypeError", -1>>)
                                              ELSE fetch.last_exception])

FetchNext ==
    \/ F44
    \/ F52
    \/ \E e \in RequestExceptions : F54(e)
    \/ F55
    \/ F60

FetchSpec == FetchInit /\ [][FetchNext]_vars

(***************************************************************************)
(* ScraperConfig.date_range (models.py)                                    *)
(*                                                                         *)
(* A date is <<year, month, day>>; adding timedelta(days=1) steps through  *)
(* the calendar.                                                           *)
(***************************************************************************)
IsLeap(y) == (y % 4 = 0 /\ y % 100 # 0) \/ y % 400 = 0

DaysInMonth(y, m) ==
    IF m = 2 THEN (IF IsLeap(y) THEN 29 ELSE 28)
    ELSE IF m \in {4, 6, 9, 11} THEN 30 ELSE 31

\* d + timedelta(days=1)
NextDay(d) ==
    IF d[3] < DaysInMonth(d[1], d[2]) THEN <<d[1], d[2], d[3] + 1>>
    ELSE IF d[2] < 12 THEN <<d[1], d[2] + 1, 1>>
    ELSE <<d[1] + 1, 1, 1>>

\* d - timedelta(days=1)
PrevDay(d) ==
    IF d[3] > 1 THEN <<d[1], d[2], d[3] - 1>>
    ELSE IF d[2] > 1 THEN <<d[1], d[2] - 1, DaysInMonth(d[1], d[2] - 1)>>
    ELSE <<d[1] - 1, 12, 31>>

\* d + timedelta(days=n)
RECURSIVE PlusDays(_, _)
PlusDays(d, n) ==
    IF n = 0 THEN d
    ELSE IF n > 0 THEN PlusDays(NextDay(d), n - 1)
    ELSE PlusDays(PrevDay(d), n + 1)

\* a <= b on dates
DateLeq(a, b) ==
    \/ a[1] < b[1]
    \/ a[1] = b[1] /\ a[2] < b[2]
    \/ a[1] = b[1] /\ a[2] = b[2] /\ a[3] <= b[3]

\* A loop test that leaves the end date out.
BeforeEnd(current, end_date) == DateLeq(current, end_date) /\ current # end_date

\* Line 94: current <= self.end_date.
InWindow(current, end_date) == DateLeq(current, end_date)

\* Lines 87-89: start_date + timedelta(days=days_ahead).
end_date(config) == PlusDays(config.start_date, config.days_ahead)

\* Start dates before a month end, a leap day and a year end.
StartDates ==
    {<<2025, 1, 1>>, <<2024, 2, 28>>, <<2025, 2, 27>>, <<2100, 2, 27>>, <<2025, 12, 30>>}

\* list(config.date_range()) is about to pull the first date.
DateInit ==
    /\ WebIdle
    /\ CacheIdle /\ PoolIdle /\ FetchIdle /\ WindowIdle
    /\ \E start_date \in StartDates, days_ahead \in -2..MaxWindow :
           call = [fn |-> "date_range", pc |-> "l93",
                   config |-> [start_date |-> start_date, days_ahead |-> days_ahead],
                   current |-> None, yielded |-> << >>]

\* One step of the function fn from position at.
CallStep(fn, at, new) ==
    /\ call.fn = fn /\ call.pc = at
    /\ call' = new
    /\ UNCHANGED <<wvars, cvars, pool, fetch, win>>

\* Line 93: current = self.start_date.
R93 ==
    CallStep("date_range", "l93",
             [call EXCEPT !.pc = "l94", !.current = Some(call.config.start_date)])

\* Line 94: the loop test; the generator is exhausted when it fails.
R94 ==
    CallStep("date_range", "l94",
             [call EXCEPT !.pc = IF InWindow(call.current[1], end_date(call.config))
                                 THEN "l95" ELSE "stopped"])

\* Line 95: yield current.
R95 ==
    CallStep("date_range", "l95",
             [call EXCEPT !.pc = "l96", !.yielded = Append(@, call.current[1])])

\* Line 96: current += timedelta(days=1).
R96 ==
    CallStep("date_range", "l96",
             [call EXCEPT !.pc = "l94", !.current = Some(NextDay(call.current[1]))])

DateNext ==
    \/ R93
    \/ R94
    \/ R95
    \/ R96

DateSpec == DateInit /\ [][DateNext]_vars

(***************************************************************************)
(* HarvardFilmArchiveScraper.scrape: the pagination loop                   *)
(***************************************************************************)
\* Line 101: the pagination safety limit.
PAGE_LIMIT == 20

\* Lines 62 and 68: the events _parse_calendar_page finds on a page that has
\* events, one inside the date window and one outside it.
PageEvents(page) ==
    <<[page |-> page, n |-> 1, in_window |-> TRUE],
      [page |-> page, n |-> 2, in_window |-> FALSE]>>

\* The pages that the site may serve without any event.
MayBeEmpty(page) == page <= 2

\* Lines 67-93: the screenings appended for page_events.
Appended(page_events) == SelectSeq(page_events, LAMBDA ev : ev.in_window)

\* A limit test that lets one more page through.
LimitOffByOne(page) == page > PAGE_LIMIT + 1

\* Line 101: page > 20.
PastLimit(page) == page > PAGE_LIMIT

\* Lines 46-55: screenings = []; page = 1.
HfaInit ==
    /\ WebIdle
    /\ CacheIdle /\ PoolIdle /\ FetchIdle /\ WindowIdle
    /\ call = [fn |-> "hfa_scrape", pc |-> "l56", page |-> 1, screenings |-> << >>,
               page_events |-> << >>, more |-> FALSE, fetched |-> << >>, raised |-> FALSE]

\* Lines 56-62: the calendar page is fetched and parsed.
H61(events, more) ==
    /\ events = << >> => MayBeEmpty(call.page)
    /\ CallStep("hfa_scrape", "l56",
                [call EXCEPT !.pc = "l64", !.page_events = events, !.more = more,
                             !.fetched = Append(@, [page |-> call.page, more |-> more,
                                                    events |-> events])])

\* Lines 61 and 107-110: get_soup raises; the exception is caught and logged.
H61Raise ==
    CallStep("hfa_scrape", "l56",
             [call EXCEPT !.pc = "l112", !.raised = TRUE,
                          !.fetched = Append(@, [page |-> call.page, more |-> FALSE,
                                                 events |-> << >>])])

\* Lines 64-65: no event on page 1 ends the loop.
H64 ==
    CallStep("hfa_scrape", "l64",
             [call EXCEPT !.pc = IF call.page_events = << >> /\ call.page = 1
                                 THEN "l105" ELSE "l67"])

\* Lines 67-95: the events inside the date window are appended.
H67 ==
    CallStep("hfa_scrape", "l67",
             [call EXCEPT !.pc = "l97", !.screenings = @ \o Appended(call.page_events)])

\* Lines 97-103: no further-page indicator ends the loop; else page += 1, and
\* a page past the limit ends it.
H97 ==
    CallStep("hfa_scrape", "l97",
             IF ~call.more THEN [call EXCEPT !.pc = "l105"]
             ELSE [call EXCEPT !.page = @ + 1,
                               !.pc = IF PastLimit(call.page + 1) THEN "l105" ELSE "l56"])

\* Line 105: the total is logged.
H105 == CallStep("hfa_scrape", "l105", [call EXCEPT !.pc = "l112"])

\* Line 112: return screenings.
H112 == CallStep("hfa_scrape", "l112", [call EXCEPT !.pc = "returned"])

HfaNext ==
    \/ \E page_events \in {<< >>, PageEvents(call.page)}, more \in BOOLEAN :
           H61(page_events, more)
    \/ H61Raise
    \/ H64
    \/ H67
    \/ H97
    \/ H105
    \/ H112

\* The scrape keeps running until it returns.
HfaSpec == HfaInit /\ [][HfaNext]_vars /\ WF_vars(HfaNext)

(***************************************************************************)
(* CoolidgeScraper._parse_text_based: the line scanner                     *)
(*                                                                         *)
(* A line is its text with the outcome of every test the loop makes on it. *)
(***************************************************************************)
\* The longest page, in lines.
ScanLen == 4

NoFeature ==
    [room |-> FALSE, skip |-> FALSE, runtime |-> None, mins |-> None, hours |-> None,
     time |-> None, year |-> None, name_like |-> FALSE, title_like |-> FALSE]

\* The lines of a page, each with: room (line 229), skip (234), runtime (241,
\* as <<hours, minutes>>), mins (250), hours (257), time (266, minute of the
\* day), year (301), name_like (lines 311-315), title_like (lines 329-333).
ScanLines ==
    { [text |-> "Nosferatu"] @@ [NoFeature EXCEPT !.name_like = TRUE, !.title_like = TRUE],
      [text |-> "Vertigo"] @@ [NoFeature EXCEPT !.name_like = TRUE, !.title_like = TRUE],
      [text |-> "Dream Big."] @@ [NoFeature EXCEPT !.name_like = TRUE, !.title_like = TRUE],
      [text |-> "2hrs"] @@ [NoFeature EXCEPT !.hours = Some(2)],
      [text |-> "29mins"] @@ [NoFeature EXCEPT !.mins = Some(29)],
      [text |-> "1hr 35mins"] @@ [NoFeature EXCEPT !.runtime = Some(<<1, 35>>)],
      [text |-> "7:00pm"] @@ [NoFeature EXCEPT !.time = Some(1140)],
      [text |-> "1922"] @@ [NoFeature EXCEPT !.year = Some(1922)],
      [text |-> "MH1"] @@ [NoFeature EXCEPT !.room = TRUE] }

\* Lines 192-198: title_to_url, from the links of the page; "Nosferatu" is a
\* link, the other lines are not.
title_to_url(text) == IF text = "Nosferatu" THEN Some(DetailUrl(text)) ELSE None

\* What lines 96-148 of _parse_film_section find in a film's section: the
\* title, the link if any, and the director and year of the listing.
Sections ==
    [title : {"Nosferatu"},
     detail_url : {None, Some(DetailUrl("Nosferatu"))},
     director : {None, Some("F. W. Murnau")},
     year : {None, Some(1922)}]

\* Lines 205-214: the locals of _parse_text_based before the first line; or
\* _parse_film_section at line 152, its section read.
ScanInit ==
    /\ WebIdle
    /\ CacheIdle /\ PoolIdle /\ FetchIdle /\ WindowIdle
    /\ \/ \E section \in Sections :
              call = [fn |-> "parse_film_section", pc |-> "l152", section |-> section,
                      director |-> section.director, year |-> section.year,
                      detail_calls |-> << >>]
       \/ \E lines \in SeqsUpTo(ScanLines, ScanLen) :
           call = [fn |-> "parse_text", pc |-> "l215", lines |-> lines, i |-> 1,
                   current_title |-> None, current_runtime |-> None,
                   current_year |-> None, current_director |-> None,
                   current_detail_url |-> None,
                   prev_line_was_runtime |-> FALSE, pending_runtime_mins |-> FALSE,
                   screenings |-> << >>, runtime_log |-> << >>, detail_calls |-> << >>]

line == call.lines[call.i]

\* One iteration of the while loop of line 215 for a line that satisfies test.
ScanStep(test, new) ==
    /\ call.fn = "parse_text" /\ call.pc = "l215"
    /\ call.i <= Len(call.lines)
    /\ test
    /\ call' = [new EXCEPT !.i = call.i + 1]
    /\ UNCHANGED <<wvars, cvars, pool, fetch, win>>

\* Lines 229-238: a room code or a navigation item.
S229 ==
    ScanStep(line.room \/ line.skip,
             [call EXCEPT !.prev_line_was_runtime = FALSE, !.pending_runtime_mins = FALSE])

Skipped == line.room \/ line.skip

\* Lines 241-249: hours and minutes on one line.
S242 ==
    ScanStep(~Skipped /\ line.runtime # None,
             [call EXCEPT !.current_runtime = Some(line.runtime[1][1] * 60 + line.runtime[1][2]),
                          !.prev_line_was_runtime = TRUE, !.pending_runtime_mins = FALSE,
                          !.runtime_log = Append(@, [at |-> call.i, by |-> "runtime"])])

\* Line 251: mins_only and pending_runtime_mins and current_runtime is not None.
MinsAdded ==
    line.mins # None /\ call.pending_runtime_mins /\ call.current_runtime # None

\* Lines 250-256: a minutes-only line completes the pending hours.
S251 ==
    ScanStep(~Skipped /\ line.runtime = None /\ MinsAdded,
             [call EXCEPT !.current_runtime = Some(@[1] + line.mins[1]),
                          !.pending_runtime_mins = FALSE, !.prev_line_was_runtime = TRUE,
                          !.runtime_log = Append(@, [at |-> call.i, by |-> "mins"])])

\* Lines 257-263: an hours-only line.
S258 ==
    ScanStep(~Skipped /\ line.runtime = None /\ ~MinsAdded /\ line.hours # None,
             [call EXCEPT !.current_runtime = Some(line.hours[1] * 60),
                          !.pending_runtime_mins = TRUE, !.prev_line_was_runtime = TRUE,
                          !.runtime_log = Append(@, [at |-> call.i, by |-> "hours"])])

\* No branch of lines 229-263 took the line.
PastRuntime == ~Skipped /\ line.runtime = None /\ ~MinsAdded /\ line.hours = None

\* A test that asks for the detail page whenever either value is missing.
NeedsDetailEither(detail_url, director, year) ==
    detail_url # None /\ (~TruthyStr(director) \/ year = None)

\* Line 273: current_detail_url and not director and not year.
NeedsDetail(detail_url, director, year) ==
    detail_url # None /\ ~TruthyStr(director) /\ year = None

\* Lines 266-298: a showtime of the current film; its screening is appended.
S267 ==
    LET asked    == NeedsDetail(call.current_detail_url, call.current_director,
                                call.current_year)
        detail   == DetailPage(call.current_title[1])
        director == IF asked THEN detail[1] ELSE call.current_director
        year     == IF asked THEN detail[2] ELSE call.current_year
    IN  ScanStep(PastRuntime /\ line.time # None /\ TruthyStr(call.current_title),
                 [call EXCEPT
                     !.screenings =
                         Append(@, [title |-> call.current_title[1], time |-> line.time[1],
                                    runtime_minutes |-> call.current_runtime,
                                    director |-> director, year |-> year]),
                     !.detail_calls =
                         IF asked
                         THEN Append(@, [at |-> call.i, title |-> call.current_title[1],
                                         detail_url |-> call.current_detail_url,
                                         director |-> call.current_director,
                                         year |-> call.current_year])
                         ELSE @,
                     !.prev_line_was_runtime = FALSE])

\* Lines 300-343: the metadata and title tests on any other line.
S301 ==
    LET year     == IF line.year # None /\ call.current_year = None
                    THEN line.year ELSE call.current_year
        director == IF TruthyStr(call.current_title) /\ ~TruthyStr(call.current_director)
                       /\ line.name_like /\ line.time = None
                    THEN Some(line.text) ELSE call.current_director
        filled   == [call EXCEPT !.current_year = year, !.current_director = director]
    IN  ScanStep(PastRuntime /\ ~(line.time # None /\ TruthyStr(call.current_title)),
                 IF call.prev_line_was_runtime
                 THEN [filled EXCEPT !.prev_line_was_runtime = FALSE]
                 ELSE IF line.title_like
                 THEN [filled EXCEPT !.current_title = Some(line.text),
                                     !.current_runtime = None, !.current_year = None,
                                     !.current_director = None,
                                     !.current_detail_url = title_to_url(line.text),
                                     !.pending_runtime_mins = FALSE]
                 ELSE filled)

\* Lines 215 and 345: past the last line; return screenings.
S345 ==
    /\ call.fn = "parse_text" /\ call.pc = "l215"
    /\ call.i > Len(call.lines)
    /\ call' = [call EXCEPT !.pc = "returned"]
    /\ UNCHANGED <<wvars, cvars, pool, fetch, win>>

\* Lines 150-155 of _parse_film_section: the detail page fills in director
\* and year when the listing gave neither.
S152 ==
    LET section == call.section
        asked   == NeedsDetail(section.detail_url, call.director, call.year)
        detail  == DetailPage(section.title)
    IN  CallStep("parse_film_section", "l152",
                 [call EXCEPT !.pc = "l158",
                              !.director = IF asked THEN detail[1] ELSE @,
                              !.year = IF asked THEN detail[2] ELSE @,
                              !.detail_calls =
                                  IF asked
                                  THEN Append(@, [at |-> 0, title |-> section.title,
                                                  detail_url |-> section.detail_url,
                                                  director |-> call.director,
                                                  year |-> call.year])
                                  ELSE @])

ScanNext ==
    \/ S152
    \/ S229
    \/ S242
    \/ S251
    \/ S258
    \/ S267
    \/ S301
    \/ S345

ScanSpec == ScanInit /\ [][ScanNext]_vars

(***************************************************************************)
(* ScreenBostonScraper._parse_screenings and _try_parse_film_block         *)
(*                                                                         *)
(* A page is a date header followed by film entries; an entry is a title,  *)
(* optionally a director and a metadata line, a venue unless it is         *)
(* missing, and its showtimes.                                             *)
(***************************************************************************)
\* The most film entries on a page.
MaxEntries == 2

\* The showtimes of an entry that has more than a look-ahead can hold.
LongRun == 14

max_look_ahead == 15

FilmTitles == <<"Alien", "Brazil", "Casablanca", "Diva">>
FilmDirectors == <<"Ridley Scott", "Terry Gilliam", "Michael Curtiz", "Jean-Jacques Beineix">>
FilmYears == <<1979, 1985, 1942, 1981>>
FilmVenues == <<"The Brattle", "Coolidge Corner Theatre", "Somerville Theatre", "West Newton Cinema">>

\* The j-th showtime of the k-th entry, as a minute of the day.
Showtime(k, j) == 600 + 100 * k + j

PageDate == <<2025, 1, 28>>

NoMark ==
    [date |-> None, skip |-> FALSE, time |-> None, venue |-> None, meta |-> None,
     year |-> None, extra |-> FALSE, name_like |-> FALSE, title_like |-> FALSE]

\* The lines of a page, each with the outcome of the tests made on it: date
\* (_is_date_header, line 72), skip (lines 178 and 183), time (187), venue
\* (196), meta (203, as <<year, runtime>>), year (211), extra (218 and 225),
\* name_like (lines 232-236), title_like (line 243).
DateLine == [text |-> "Tuesday, January 28"] @@ [NoMark EXCEPT !.date = Some(PageDate)]
PrefixLine == [text |-> "SCREEN BOSTON CO-PRESENTS"] @@ [NoMark EXCEPT !.skip = TRUE]
TitleLine(k) == [text |-> FilmTitles[k]] @@ [NoMark EXCEPT !.name_like = TRUE, !.title_like = TRUE]
DirectorLine(k) == [text |-> FilmDirectors[k]] @@ [NoMark EXCEPT !.name_like = TRUE, !.title_like = TRUE]
MetaLine(k) == [text |-> "meta"] @@ [NoMark EXCEPT !.meta = Some(<<FilmYears[k], 90 + k>>), !.title_like = TRUE]
VenueLine(k) == [text |-> FilmVenues[k]] @@ [NoMark EXCEPT !.venue = Some(FilmVenues[k]), !.title_like = TRUE]
TimeLine(k, j) == [text |-> "time"] @@ [NoMark EXCEPT !.time = Some(Showtime(k, j)), !.title_like = TRUE]

\* An entry is well formed when it has a venue and at least one showtime.
EntryShapes == [full : BOOLEAN, venue : BOOLEAN, ntimes : {0, 1, LongRun}]

WellFormed(shape) == shape.venue /\ shape.ntimes > 0

EntryLines(k, shape) ==
    (IF shape.full THEN <<PrefixLine>> ELSE << >>)
    \o <<TitleLine(k)>>
    \o (IF shape.full THEN <<DirectorLine(k), MetaLine(k)>> ELSE << >>)
    \o (IF shape.venue THEN <<VenueLine(k)>> ELSE << >>)
    \o [j \in 1..shape.ntimes |-> TimeLine(k, j)]

RECURSIVE PageLines(_, _)
PageLines(entries, k) ==
    IF k > Len(entries) THEN << >>
    ELSE EntryLines(k, entries[k]) \o PageLines(entries, k + 1)

\* A look-ahead one line longer.
WithinLookAheadWide(offset) == offset <= max_look_ahead

\* Line 166 and the range of line 168.
WithinLookAhead(offset) == offset < max_look_ahead

\* Lines 158-164: the block before its first line.
EmptyBlock ==
    [title |-> None, director |-> None, year |-> None, runtime |-> None,
     venue |-> None, times |-> << >>, extra_info |-> << >>, consumed |-> 0]

\* Lines 168-249: the look-ahead loop of _try_parse_film_block from offset on;
\* start_idx is the index of the block's first line, counted from 1.
RECURSIVE LookAhead(_, _, _, _)
\* One line of the look-ahead: the block b after the line at offset and the
\* lines that follow it.
LookAt(lines, start_idx, offset, b) ==
    LET ln   == lines[start_idx + offset]
        took == [b EXCEPT !.consumed = offset + 1]
    IN  IF ln.date # None THEN b
        ELSE IF ln.skip THEN LookAhead(lines, start_idx, offset + 1, took)
        ELSE IF ln.time # None
        THEN LookAhead(lines, start_idx, offset + 1,
                       [took EXCEPT !.times = Append(@, ln.time[1])])
        ELSE IF ln.venue # None /\ b.venue = None
        THEN LookAhead(lines, start_idx, offset + 1, [took EXCEPT !.venue = ln.venue])
        ELSE IF ln.meta # None
        THEN LookAhead(lines, start_idx, offset + 1,
                       [took EXCEPT !.year = Some(ln.meta[1][1]),
                                    !.runtime = Some(ln.meta[1][2])])
        ELSE IF ln.year # None /\ b.year = None
        THEN LookAhead(lines, start_idx, offset + 1, [took EXCEPT !.year = ln.year])
        ELSE IF ln.extra
        THEN LookAhead(lines, start_idx, offset + 1,
                       [took EXCEPT !.extra_info = Append(@, ln.text)])
        ELSE IF TruthyStr(b.title) /\ ~TruthyStr(b.director) /\ ~TruthyStr(b.venue)
                /\ ln.name_like
        THEN LookAhead(lines, start_idx, offset + 1,
                       [took EXCEPT !.director = Some(ln.text)])
        ELSE IF b.title = None /\ ln.title_like
        THEN LookAhead(lines, start_idx, offset + 1,
                       [took EXCEPT !.title = Some(ln.text)])
        ELSE IF b.times # << >> THEN b
        ELSE LookAhead(lines, start_idx, offset + 1, b)

\* The loop from offset on, the block so far taken as a value.
LookAhead(lines, start_idx, offset, block) ==
    IF ~WithinLookAhead(offset) \/ start_idx + offset > Len(lines) THEN block
    ELSE CHOOSE after \in {LookAt(lines, start_idx, offset, b) : b \in {block}} : TRUE

Max(a, b) == IF a > b THEN a ELSE b

\* Lines 252-277: <<screenings, consumed>> of the gathered block b.
BlockResult(b, screening_date) ==
    << IF TruthyStr(b.title) /\ TruthyStr(b.venue) /\ b.times # << >>
       THEN [n \in 1..Len(b.times) |->
                [title |-> b.title[1], venue |-> b.venue[1], date |-> screening_date,
                 time |-> b.times[n], runtime_minutes |-> b.runtime,
                 director |-> b.director, year |-> b.year]]
       ELSE << >>,
       Max(b.consumed, 1) >>

\* Lines 154-277: the block that starts at start_idx, gathered and emitted.
_try_parse_film_block(lines, start_idx, screening_date) ==
    CHOOSE result \in
        {BlockResult(b, screening_date) :
             b \in {LookAhead(lines, start_idx, 0, EmptyBlock)}} : TRUE

\* _parse_screenings at line 68, lines split from the page.
BostonInit ==
    /\ WebIdle
    /\ CacheIdle /\ PoolIdle /\ FetchIdle /\ WindowIdle
    /\ \E entries \in SeqsUpTo(EntryShapes, MaxEntries), dated \in BOOLEAN :
           call = [fn |-> "boston_parse", pc |-> "l68",
                   entries |-> entries,
                   lines |-> (IF dated THEN <<DateLine>> ELSE << >>) \o PageLines(entries, 1),
                   config |-> [start_date |-> PageDate, days_ahead |-> 0],
                   i |-> 1, current_date |-> None, screenings |-> << >>,
                   advances |-> << >>]

\* One iteration of the while loop of line 68.
BostonStep(test, by, new) ==
    /\ call.fn = "boston_parse" /\ call.pc = "l68"
    /\ call.i <= Len(call.lines)
    /\ test
    /\ call' = [new EXCEPT !.i = call.i + by.n,
                           !.advances = Append(@, by)]
    /\ UNCHANGED <<wvars, cvars, pool, fetch, win>>

\* Lines 71-80: a date header.
B72 ==
    BostonStep(call.lines[call.i].date # None, [on |-> "date", n |-> 1],
               [call EXCEPT !.current_date = call.lines[call.i].date])

Parsed == _try_parse_film_block(call.lines, call.i, call.current_date[1])

\* Lines 83-88: a film block was parsed; its lines are consumed.
B84 ==
    BostonStep(call.lines[call.i].date = None /\ call.current_date # None
                   /\ Parsed[1] # << >>,
               [on |-> "block", n |-> Parsed[2]],
               [call EXCEPT !.screenings = @ \o Parsed[1]])

\* Line 90: no date yet, or no film block at this line.
B90 ==
    BostonStep(call.lines[call.i].date = None
                   /\ (call.current_date # None => Parsed[1] = << >>),
               [on |-> "none", n |-> 1],
               call)

\* Lines 98-104: the first screening of every (title, venue, date, time).
\* init, and s after it unless init has a screening with the key of s.
UniqueLast(init, s) ==
    IF \E n \in 1..Len(init) :
           <<init[n].title, init[n].venue, init[n].date, init[n].time>>
               = <<s.title, s.venue, s.date, s.time>>
    THEN init ELSE Append(init, s)

RECURSIVE Unique(_)
Unique(screenings) ==
    IF screenings = << >> THEN << >>
    ELSE CHOOSE unique \in
             UNION { {UniqueLast(init, ss[Len(ss)]) :
                          init \in {Unique(SubSeq(ss, 1, Len(ss) - 1))}} :
                     ss \in {screenings} } : TRUE

\* Lines 92-106: the scan is over; filter to the window, drop duplicates.
B93 ==
    /\ call.fn = "boston_parse" /\ call.pc = "l68"
    /\ call.i > Len(call.lines)
    /\ call' = [call EXCEPT
                   !.pc = "returned",
                   !.screenings =
                       Unique(SelectSeq(@, LAMBDA s :
                           /\ DateLeq(call.config.start_date, s.date)
                           /\ DateLeq(s.date, end_date(call.config))))]
    /\ UNCHANGED <<wvars, cvars, pool, fetch, win>>

BostonNext ==
    \/ B72
    \/ B84
    \/ B90
    \/ B93

BostonSpec == BostonInit /\ [][BostonNext]_vars /\ WF_vars(BostonNext)

(***************************************************************************)
(* The Coolidge list of a short window in the reconciler                   *)
(*                                                                         *)
(* The date pages and the lists of the other sources are fixed; the list   *)
(* of the Coolidge scraper is the one scrape() returned.                   *)
(***************************************************************************)
\* coolidge.py lines 279-292: the Screening of a film section of a date page.
\* On odd dates the films of a page share a showtime; on even dates they
\* follow one another and the first is tagged as a double feature.
CoolidgeScreening(r) ==
    LET title == IF r.pos = 1 THEN "A" ELSE "B"
    IN  Cand(title, CoolidgeCornerTheatre, r.date,
             IF r.date % 2 = 1 THEN 1140 ELSE 1140 + 150 * (r.pos - 1),
             "Coolidge", Some(90 + r.pos), DetailPage(title)[1], None,
             IF r.date % 2 = 0 /\ r.pos = 1 THEN Some(<<"Double feature">>) ELSE None)

\* What the Screen Boston and the Brattle scraper returned.
BostonScreenings ==
    << Cand("A", CoolidgeCornerTheatre, 1, 1140, SCREEN_BOSTON, None, None, None, None),
       Cand("E", TheBrattle, 2, 1140, SCREEN_BOSTON, None, None, None, None) >>

BrattleScreenings ==
    << Cand("E", TheBrattle, 2, 1140, "Brattle", Some(70), Some("X"), None, None),
       Cand("F", TheBrattle, 1, 1140, "Brattle", Some(60), None, None, None) >>

\* tasks.py lines 319-324: all_screenings, the sources in SOURCE_ORDER.
all_screenings(coolidge) ==
    BostonScreenings
    \o [n \in 1..Len(coolidge) |-> CoolidgeScreening(coolidge[n])]
    \o BrattleScreenings

\* The pages of the dates of order, one after the other.
RECURSIVE PagesIn(_)
PagesIn(order) ==
    IF order = << >> THEN << >> ELSE Page(Head(order)) \o PagesIn(Tail(order))

\* The orders in which the pages of a window can come back.
DateOrders ==
    {order \in SeqsUpTo(1..(MaxWindow + 1), MaxWindow + 1) :
         \A i, j \in 1..Len(order) : order[i] = order[j] => i = j}

\* tasks.py lines 319-342 for each of those orders, computed once.
ReconciledIn ==
    [order \in DateOrders |-> Reconcile(all_screenings(PagesIn(order)))] @@ << >>

(***************************************************************************)
(* Properties of the job orchestrator                                      *)
(***************************************************************************)
\* The list lines 332-342 left in the thread of a job that is past them.
FinalList(job_id) == thr[job_id].screenings

\* C1: whenever a reader gets an answer that shows a job as complete, the
\* answer carries the final reconciled list of the job, progress 100 and the
\* summary message "Found <n> screenings"; complete is never visible with the
\* initial empty list in place of a non-empty final list.
C1_CompleteShowsFinalList ==
    /\ (resp.op = "get_screenings" /\ resp.code = 200) =>
           resp.body.screenings = SerializeAll(FinalList(resp.job_id))
    /\ (resp.op = "scrape_status" /\ resp.code = 200 /\ resp.body.status = "complete") =>
           /\ resp.body.progress = 100
           /\ resp.body.message =
                  "Found " \o ToString(Len(FinalList(resp.job_id))) \o " screenings"
           /\ FinalList(resp.job_id) # << >> =>
                  /\ "screenings" \in DOMAIN resp.body
                  /\ resp.body.screenings = SerializeAll(FinalList(resp.job_id))

\* The status changes the state machine allows.
StatusMove(a, b) ==
    \/ a = "pending" /\ b = "running"
    \/ a = "running" /\ b \in {"complete", "error"}

\* C2: in every step, of any thread, the status of every job either stays as
\* it is or moves pending -> running, running -> complete or running -> error,
\* and a job enters the registry as pending; so complete and error are never
\* left and running is never re-entered.
C2_StatusOrder ==
    [][/\ \A j \in JobIds :
             jobs'[j].status # jobs[j].status =>
                 StatusMove(jobs[j].status, jobs'[j].status)
       /\ \A j \in (DOMAIN jobs') \ JobIds : jobs'[j].status = "pending"]_vars

\* Two jobs ran side by side, one to complete and one to error, and both
\* threads have ended.
C2_BothTerminalsReached ==
    \E j, k \in JobIds :
        /\ jobs[j].status = "complete" /\ thr[j].pc = "done"
        /\ jobs[k].status = "error" /\ thr[k].pc = "done"

\* xs is in ascending (date, time) order.
SortedByDateTime(xs) ==
    \A a, b \in 1..Len(xs) :
        a < b => \/ xs[a].date < xs[b].date
                 \/ xs[a].date = xs[b].date /\ xs[a].time <= xs[b].time

\* No two records of xs share the identity (title, venue, date, time).
NoDuplicateIdentity(xs) ==
    \A a, b \in 1..Len(xs) :
        a # b => <<xs[a].title, xs[a].venue, xs[a].date, xs[a].time>>
                 # <<xs[b].title, xs[b].venue, xs[b].date, xs[b].time>>

\* C4: the list stored on a complete job holds no two records with the same
\* (title, venue, date, time) and is in ascending (date, time) order.
C4_StoredListUniqueAndSorted ==
    \A j \in JobIds :
        jobs[j].status = "complete" =>
            /\ NoDuplicateIdentity(jobs[j].screenings)
            /\ SortedByDateTime(jobs[j].screenings)

\* A job is complete and its stored list holds records of several days that
\* the sources did not return in date order.
C4_StoredListReached ==
    \E j \in JobIds :
        /\ jobs[j].status = "complete"
        /\ Len(jobs[j].screenings) >= 3
        /\ jobs[j].screenings = FinalList(j)
        /\ \E a, b \in 1..Len(jobs[j].screenings) :
               jobs[j].screenings[a].date < jobs[j].screenings[b].date

\* An exception escaped the pipeline of job j outside the per-source try.
Escaped(j) == thr[j].exc # None

\* C5: when an exception escapes the pipeline outside the per-source try, the
\* job ends with status error, error = the exception text and message =
\* "Error: <text>"; from the raise on the job's screenings list is empty, the
\* status answer carries no screenings and the screenings and venues
\* endpoints answer 400.
C5_FatalErrorExposesNothing ==
    /\ \A j \in JobIds :
           Escaped(j) =>
               /\ jobs[j].screenings = << >>
               /\ thr[j].pc = "done" =>
                      /\ jobs[j].status = "error"
                      /\ jobs[j].error = thr[j].exc
                      /\ jobs[j].message = "Error: " \o thr[j].exc[1]
    /\ (resp.op \in {"scrape_status", "get_screenings", "get_venues"}
        /\ resp.job_id \in JobIds /\ Escaped(resp.job_id)) =>
           IF resp.op = "scrape_status"
           THEN "screenings" \notin DOMAIN resp.body
           ELSE jobs[resp.job_id].status = "error" => resp.code = 400

\* A job whose sources returned candidates ended by an escaped exception, and
\* a reader asked for its screenings afterwards.
C5_FatalErrorReached ==
    \E j \in JobIds :
        /\ Escaped(j) /\ thr[j].pc = "done"
        /\ thr[j].screenings # << >>
        /\ jobs[j].status = "error"
        /\ resp.op = "get_screenings" /\ resp.job_id = j

\* What the first n sources of scrapers returned, those in failed left out.
RECURSIVE Collected(_, _, _)
Collected(scrapers, n, failed) ==
    IF n = 0 THEN << >>
    ELSE Collected(scrapers, n - 1, failed)
         \o (IF scrapers[n] \in failed THEN << >> ELSE ScrapeResult(scrapers[n]))

\* The positions of _do_scrape inside the loop body and just after the loop.
InLoop == {"l319", "l320", "l323"}

\* C6: a source whose scrape() raises is skipped and nothing else: the loop
\* goes on over the enabled sources in their fixed order, the list handed to
\* the reconciler is what every other source returned, in source order, and
\* the job ends complete unless an exception escapes the pipeline itself.
C6_SourceFailureContained ==
    \A j \in JobIds :
        /\ thr[j].pc \in InLoop \cup {"l332"} =>
               /\ thr[j].scrapers = BuildScrapers(thr[j].config)
               /\ thr[j].failed \subseteq
                      {thr[j].scrapers[n] : n \in 1..thr[j].idx}
               /\ thr[j].screenings =
                      Collected(thr[j].scrapers, thr[j].idx, thr[j].failed)
               /\ thr[j].pc \in InLoop => thr[j].idx < Len(thr[j].scrapers)
               /\ thr[j].pc = "l332" => thr[j].idx = Len(thr[j].scrapers)
        /\ (thr[j].pc = "done" /\ ~Escaped(j)) =>
               /\ jobs[j].status = "complete"
               /\ jobs[j].screenings =
                      Reconcile(Collected(thr[j].scrapers, Len(thr[j].scrapers),
                                          thr[j].failed))

\* The second of four sources raised, the two after it were scraped, and the
\* job ended complete with records of the sources before and after it.
C6_SourceFailureReached ==
    \E j \in JobIds :
        /\ thr[j].pc = "done" /\ jobs[j].status = "complete"
        /\ Len(thr[j].scrapers) = 4 /\ thr[j].failed = {"Coolidge"}
        /\ \A site \in {SCREEN_BOSTON, "Harvard Film Archive", "Brattle"} :
               \E n \in 1..Len(jobs[j].screenings) :
                   jobs[j].screenings[n].source_site = site

\* C7: when every scrape() call returns or raises and every thread keeps
\* being scheduled, each job that start_scrape_job registered eventually has
\* the status complete or error; none stays pending or running forever.
C7_EveryJobEnds ==
    \A j \in 1..MaxJobs :
        (j \in JobIds) ~> (j \in JobIds /\ jobs[j].status \in {"complete", "error"})

\* Two jobs were started and both threads ran to their end, one of them over
\* all four sources.
C7_AllJobsEnded ==
    /\ Cardinality(JobIds) >= 2
    /\ \A j \in JobIds :
           thr[j].pc = "done" /\ jobs[j].status \in {"complete", "error"}
    /\ \E j \in JobIds : Len(thr[j].scrapers) = 4 /\ thr[j].idx = 4

\* C8: the progress of every job lies in 0..100 and no step lowers it; while
\* the idx-th (from 0) of the N enabled sources is being scraped it is
\* floor(idx * 90 / N); it is 100 only once the completion lines have run, and
\* a job that ends without an escaped exception, with any number of sources
\* and with none, ends with progress 100.
C8_ProgressMonotone ==
    /\ [](\A j \in JobIds :
             /\ jobs[j].progress \in 0..100
             /\ thr[j].pc = "l323" =>
                    jobs[j].progress = (thr[j].idx * 90) \div Len(thr[j].scrapers)
             /\ jobs[j].progress = 100 =>
                    jobs[j].status = "complete" /\ thr[j].pc \in {"l347", "l348", "done"}
             /\ (thr[j].pc = "done" /\ ~Escaped(j)) => jobs[j].progress = 100)
    /\ [][\A j \in JobIds : jobs'[j].progress >= jobs[j].progress]_vars

\* The last of three enabled sources is being scraped and the job shows 60.
C8_ThirdOfThreeScraped ==
    \E j \in JobIds :
        /\ thr[j].pc = "l323" /\ Len(thr[j].scrapers) = 3 /\ thr[j].idx = 2
        /\ jobs[j].progress = 60

\* A job with no enabled source ended complete with progress 100.
C8_NoSourceJobEnded ==
    \E j \in JobIds :
        /\ thr[j].pc = "done" /\ thr[j].scrapers = << >>
        /\ jobs[j].status = "complete" /\ jobs[j].progress = 100

(***************************************************************************)
(* Properties of the reconciler                                            *)
(***************************************************************************)
\* The positions of xs that hold a record with identity key.
WithKey(xs, key) == {i \in 1..Len(xs) : DedupKey(xs[i]) = key}

\* The input holds the identity of rin[i] both from "Screen Boston" and from
\* the preferred site of its venue.
FromBothSites(i) ==
    /\ PreferredSite(rin[i].venue) # None
    /\ \E a, b \in WithKey(rin, DedupKey(rin[i])) :
           /\ rin[a].source_site = SCREEN_BOSTON
           /\ Some(rin[b].source_site) = PreferredSite(rin[i].venue)

\* C3: after the whole pipeline (merge, dedup, sort), for every order of the
\* candidates, an identity that the input holds both from "Screen Boston" and
\* from the venue's preferred site is in the output exactly once, and that
\* record's source_site is the preferred site.
C3_PreferredSiteSurvivesPipeline ==
    rstage = "sorted" =>
        \A i \in 1..Len(rin) :
            FromBothSites(i) =>
                /\ Cardinality(WithKey(rcur, DedupKey(rin[i]))) = 1
                /\ \A n \in WithKey(rcur, DedupKey(rin[i])) :
                       Some(rcur[n].source_site) = PreferredSite(rin[i].venue)

\* The least element of a non-empty set of positions.
First(S) == CHOOSE i \in S : \A k \in S : i <= k

\* The position in rin of the candidate that must survive for the identity
\* of rin[i]: the first from the preferred site, else the first not from
\* "Screen Boston", else the first.
Survivor(i) ==
    LET same      == WithKey(rin, DedupKey(rin[i]))
        preferred == {a \in same : Some(rin[a].source_site) = PreferredSite(rin[a].venue)}
        theater   == {a \in same : rin[a].source_site # SCREEN_BOSTON}
    IN  IF preferred # {} THEN First(preferred)
        ELSE IF theater # {} THEN First(theater)
        ELSE First(same)

\* C9: for every identity (title, venue string, date, time) of its input, for
\* any number and order of candidates with it, _deduplicate_screenings returns
\* exactly one record with that identity: the first-seen candidate from the
\* venue's preferred site if there is one, else the first-seen candidate not
\* from "Screen Boston" if there is one, else the first-seen candidate; and
\* it returns nothing else.
C9_DedupKeepsPreferred ==
    rstage = "dedup_only" =>
        /\ \A i \in 1..Len(rin) :
               /\ Cardinality(WithKey(rcur, DedupKey(rin[i]))) = 1
               /\ \A n \in WithKey(rcur, DedupKey(rin[i])) : rcur[n] = rin[Survivor(i)]
        /\ \A n \in 1..Len(rcur) : WithKey(rin, DedupKey(rcur[n])) # {}

\* Three candidates with one identity came in the order "Screen Boston",
\* another theater's site, the venue's preferred site, and the last one is
\* the record returned.
C9_PreferredSeenLast ==
    /\ rstage = "dedup_only"
    /\ Len(rin) = 3 /\ Cardinality(WithKey(rin, DedupKey(rin[1]))) = 3
    /\ rin[1].source_site = SCREEN_BOSTON
    /\ rin[2].source_site \notin {SCREEN_BOSTON, "Coolidge"}
    /\ Some(rin[3].source_site) = PreferredSite(rin[3].venue)
    /\ rcur = <<rin[3]>>

\* The positions of rin in the slot (canonical venue, date, time) of rin[i].
InSlot(i) == {a \in 1..Len(rin) : SlotKey(rin[a]) = SlotKey(rin[i])}

\* The positions of S in ascending order.
RECURSIVE Ascending(_)
Ascending(S) ==
    IF S = {} THEN << >>
    ELSE LET last == CHOOSE a \in S : \A b \in S : b <= a
         IN  Append(Ascending(S \ {last}), last)

\* The values F(a) for the positions a of S, in ascending order of position.
InOrder(S, F(_)) ==
    LET order == Ascending(S)
    IN  [n \in 1..Len(order) |-> F(order[n])]

\* xs[1] sep xs[2] sep ... xs[n] for a non-empty xs.
RECURSIVE Joined(_, _)
Joined(sep, xs) ==
    IF Len(xs) = 1 THEN xs[1]
    ELSE Joined(sep, SubSeq(xs, 1, Len(xs) - 1)) \o sep \o xs[Len(xs)]

\* The sum of the numbers of xs.
RECURSIVE Total(_)
Total(xs) == IF xs = << >> THEN 0 ELSE Total(SubSeq(xs, 1, Len(xs) - 1)) + xs[Len(xs)]

RECURSIVE Flat(_)
Flat(xss) == IF xss = << >> THEN << >> ELSE Head(xss) \o Flat(Tail(xss))

\* xs without the elements that occur earlier in xs.
FirstSeen(xs) ==
    LET IsFirst(i) == \A k \in 1..(i - 1) : xs[k] # xs[i]
        keep       == {i \in 1..Len(xs) : IsFirst(i)}
        At(i)      == xs[i]
    IN  InOrder(keep, At)

\* The record Stage A must produce for the slot of rin[i].
StageARecord(i) ==
    LET slot        == InSlot(i)
        Title(a)    == rin[a].title
        Director(a) == rin[a].director[1]
        Runtime(a)  == rin[a].runtime_minutes[1]
        Extra(a)    == rin[a].extra[1]
        Special(a)  == rin[a].special_attributes[1]
        directors   == InOrder({a \in slot : rin[a].director \notin {None, Some("")}},
                               Director)
        runtimes    == InOrder({a \in slot : rin[a].runtime_minutes # None}, Runtime)
        extras      == InOrder({a \in slot : rin[a].extra \notin {None, Some("")}}, Extra)
        special     == Flat(InOrder({a \in slot : rin[a].special_attributes # None},
                                    Special))
        first       == rin[First(slot)]
    IN  [title |-> Joined(" + ", InOrder(slot, Title)),
         runtime_minutes |-> IF runtimes = << >> THEN None ELSE Some(Total(runtimes)),
         director |->
             IF directors = << >> THEN None
             ELSE IF \A n \in 1..Len(directors) : directors[n] = directors[1]
             THEN Some(directors[1])
             ELSE Some(Joined(" + ", directors)),
         extra |-> IF extras = << >> THEN None ELSE Some(Joined(", ", extras)),
         special_attributes |-> IF special = << >> THEN None ELSE Some(FirstSeen(special)),
         venue |-> first.venue, date |-> first.date, time |-> first.time,
         source_url |-> first.source_url, source_site |-> first.source_site,
         year |-> first.year]

\* C10: in Stage A (Pass 1), every slot (canonical venue, date, time) that holds
\* two or more candidates whose titles are not all the same is replaced by
\* exactly one record: title = the titles joined by " + " in input order,
\* runtime_minutes = the sum of the known runtimes (null if none), director =
\* the one common director or the directors joined by " + " (null if none),
\* extra = the extras joined by ", ", special_attributes = their union in
\* first-seen order, venue, date, time and source from the first candidate.
C10_StageAMergesSlot ==
    rstage = "pass1" =>
        \A i \in 1..Len(rin) :
            (\E a, b \in InSlot(i) : rin[a].title # rin[b].title) =>
                /\ Cardinality({n \in 1..Len(rcur) : SlotKey(rcur[n]) = SlotKey(rin[i])}) = 1
                /\ \A n \in 1..Len(rcur) :
                       SlotKey(rcur[n]) = SlotKey(rin[i]) => rcur[n] = StageARecord(i)

\* "A" (90 minutes) and "B" (100 minutes) in one slot became "A + B" with
\* runtime 190.
C10_TwoFilmsMerged ==
    /\ rstage = "pass1"
    /\ Len(rin) = 2 /\ rin[1].title = "A" /\ rin[2].title = "B"
    /\ rin[1].runtime_minutes = Some(90) /\ rin[2].runtime_minutes = Some(100)
    /\ Len(rcur) = 1
    /\ rcur[1].title = "A + B" /\ rcur[1].runtime_minutes = Some(190)

\* The positions of rin with the title and the slot of rin[i].
SameFilm(i) == {a \in InSlot(i) : rin[a].title = rin[i].title}

\* C11: two or more candidates with one title in one slot (canonical venue,
\* date, time) are in the reconciler's output as exactly one record of that
\* slot: the first of them in input order, its title and runtime as they
\* were, not joined or summed.
C11_SameTitleCollapses ==
    rstage = "sorted" =>
        \A i \in 1..Len(rin) :
            Cardinality(SameFilm(i)) >= 2 =>
                LET out == {n \in 1..Len(rcur) : SlotKey(rcur[n]) = SlotKey(rin[i])}
                IN  /\ Cardinality(out) = 1
                    /\ \A n \in out :
                           /\ rcur[n].title = rin[i].title
                           /\ rcur[n].runtime_minutes =
                                  rin[First(SameFilm(i))].runtime_minutes
                           /\ rcur[n].source_site = rin[First(SameFilm(i))].source_site

\* The Stage-A output in the order Stage B scans it.
StageBInput == SortBySlot(MergePass1(rin))

Tagged(s) ==
    /\ s.special_attributes # None
    /\ \E k \in 1..Len(s.special_attributes[1]) :
          s.special_attributes[1][k] = "Double feature"

\* Record i of xs is tagged and record i + 1 shares its canonical venue and date.
PairAt(xs, i) ==
    /\ i >= 1 /\ i + 1 <= Len(xs)
    /\ Tagged(xs[i])
    /\ _canonical_venue(xs[i + 1].venue) = _canonical_venue(xs[i].venue)
    /\ xs[i + 1].date = xs[i].date

\* The scan merges at i: a pair starts at i and record i was not consumed as
\* the second record of a pair merged just before.
RECURSIVE MergedAt(_, _)
MergedAt(xs, i) == PairAt(xs, i) /\ ~(i > 1 /\ MergedAt(xs, i - 1))

\* The pairwise merge rule applied to a and b.
PairRecord(a, b) ==
    LET Text(o)   == IF o \in {None, Some("")} THEN << >> ELSE o
        directors == Text(a.director) \o Text(b.director)
        extras    == Text(a.extra) \o Text(b.extra)
        runtimes  == a.runtime_minutes \o b.runtime_minutes
        special   == (IF a.special_attributes = None THEN << >> ELSE a.special_attributes[1])
                     \o (IF b.special_attributes = None THEN << >>
                         ELSE b.special_attributes[1])
    IN  [title |-> a.title \o " + " \o b.title,
         runtime_minutes |-> IF runtimes = << >> THEN None ELSE Some(Total(runtimes)),
         director |->
             IF directors = << >> THEN None
             ELSE IF Len(directors) = 1 \/ directors[1] = directors[2]
             THEN Some(directors[1])
             ELSE Some(directors[1] \o " + " \o directors[2]),
         extra |-> IF extras = << >> THEN None ELSE Some(Joined(", ", extras)),
         special_attributes |-> IF special = << >> THEN None ELSE Some(FirstSeen(special)),
         venue |-> a.venue, date |-> a.date, time |-> a.time,
         source_url |-> a.source_url, source_site |-> a.source_site, year |-> a.year]

\* What Stage B must return for xs: each pair the scan merges as one merged
\* record, every other record as it is, in scan order.
StageBOutput(xs) ==
    LET kept   == {i \in 1..Len(xs) : ~(i > 1 /\ MergedAt(xs, i - 1))}
        Out(i) == IF MergedAt(xs, i) THEN PairRecord(xs[i], xs[i + 1]) ELSE xs[i]
    IN  InOrder(kept, Out)

\* C12: Stage B scans the Stage-A output sorted by (canonical venue, date,
\* time) from the front; every tagged record the scan reaches whose immediate
\* successor shares its canonical venue and date is merged with that
\* successor by the pairwise rule, the scan goes on after the successor, and
\* every record not merged is passed through unchanged.
C12_StageBScan ==
    rstage = "merged" => rcur = StageBOutput(StageBInput)

\* C12 as stated, without the scan skipping the successor it consumed: every
\* tagged record whose immediate successor shares its canonical venue and date
\* is in the output merged with that successor.
C12_EveryTaggedPairMerged ==
    rstage = "merged" =>
        \A i \in 1..Len(StageBInput) :
            PairAt(StageBInput, i) =>
                \E n \in 1..Len(rcur) :
                    rcur[n] = PairRecord(StageBInput[i], StageBInput[i + 1])

\* "B" (tagged, 19:00) and "C" (21:30) of one venue and day became "B + C"
\* with the runtimes summed, and "D" of another venue passed through.
C12_PairMergedAcrossTimes ==
    /\ rstage = "merged"
    /\ Len(rin) = 3 /\ Len(rcur) = 2
    /\ \E n \in 1..2 : rcur[n].title = "B + C" /\ rcur[n].runtime_minutes = Some(180)
    /\ \E n \in 1..2 : rcur[n].title = "D"

\* Stage A merged the slot of rin[i]: it holds candidates of different titles.
MergedInStageA(i) == \E a, b \in InSlot(i) : rin[a].title # rin[b].title

\* C24: a record that Stage A produced by merging a same-slot group is not
\* merged again in Stage B: it is in the output of Stage B as Stage A made
\* it, not combined with the next showtime of the venue on that date.
C24_StageAMergeNotMergedAgain ==
    rstage = "merged" =>
        \A i \in 1..Len(rin) :
            MergedInStageA(i) => \E n \in 1..Len(rcur) : rcur[n] = StageARecord(i)

\* The slot of rin[i] holds a title more than once and another title.
MixedSlot(i) ==
    /\ MergedInStageA(i)
    /\ \E a, b \in InSlot(i) : a # b /\ rin[a].title = rin[b].title

\* The first known runtime among the candidates of the slot of rin[i] with
\* the title of rin[a], 0 if none is known.
FilmRuntime(i, a) ==
    LET known == {b \in InSlot(i) : rin[b].title = rin[a].title
                                    /\ rin[b].runtime_minutes # None}
    IN  IF known = {} THEN 0 ELSE rin[First(known)].runtime_minutes[1]

\* C25: the record merged from a slot that holds repeated and distinct
\* titles names each distinct title once, in first-seen order, and its
\* runtime counts each film once.
C25_MixedSlotNamesEachFilmOnce ==
    rstage = "pass1" =>
        \A i \in 1..Len(rin) :
            MixedSlot(i) =>
                LET Title(a)  == rin[a].title
                    firsts    == {a \in InSlot(i) :
                                      \A b \in InSlot(i) : rin[b].title = rin[a].title => a <= b}
                    Runtime(a) == FilmRuntime(i, a)
                IN  \A n \in 1..Len(rcur) :
                        SlotKey(rcur[n]) = SlotKey(rin[i]) =>
                            /\ rcur[n].title = Joined(" + ", InOrder(firsts, Title))
                            /\ rcur[n].runtime_minutes \in
                                   {None, Some(Total(InOrder(firsts, Runtime)))}

\* The titles of the input and their " + " joins of up to Len(rin) parts that
\* have title as one part.
JoinsWith(title) ==
    LET titles == {rin[a].title : a \in 1..Len(rin)}
        parts  == {xs \in SeqsUpTo(titles, Len(rin)) :
                       xs # << >> /\ \E k \in 1..Len(xs) : xs[k] = title}
    IN  {Joined(" + ", xs) : xs \in parts}

\* C27: reconciliation loses no film: for every input candidate the final
\* list holds a record at the candidate's canonical venue and date whose
\* title is the candidate's title or a " + " join with that title as a part.
C27_NoFilmLost ==
    rstage = "sorted" =>
        \A i \in 1..Len(rin) :
            \E n \in 1..Len(rcur) :
                /\ _canonical_venue(rcur[n].venue) = _canonical_venue(rin[i].venue)
                /\ rcur[n].date = rin[i].date
                /\ rcur[n].title \in JoinsWith(rin[i].title)

\* Three films of one venue and day went in ("A" and "B" at 19:00, "F" at
\* 23:00) and the final list is the single record "A + B + F".
C27_ThreeFilmsInOneRecord ==
    /\ rstage = "sorted"
    /\ Len(rin) = 3 /\ rin[1].title = "A" /\ rin[2].title = "B" /\ rin[3].title = "F"
    /\ Len(rcur) = 1 /\ rcur[1].title = "A + B + F"

(***************************************************************************)
(* Properties of the Coolidge scraper                                      *)
(***************************************************************************)
\* C13: for every cache key, at most one worker observes a miss, the detail
\* page is requested at most once, and the stored entry is written at most
\* once (never overwritten).
C13_DetailCacheOnce ==
    \A k \in DOMAIN dlog :
        /\ dlog[k].miss <= 1
        /\ dlog[k].fetch <= 1
        /\ dlog[k].write <= 1

\* C14: at no time are more than min(10, number of dates) per-date fetches
\* in progress, and scrape() has returned only when every per-date task has
\* finished and has had its screenings collected or its failure logged.
C14_PoolBoundedAndJoined ==
    pool.pc # "idle" =>
        /\ pool.running <= Min(10, pool.dates)
        /\ pool.pc = "returned" =>
               /\ pool.queued = 0 /\ pool.running = 0
               /\ pool.ok = 0 /\ pool.exc = 0
               /\ pool.collected + pool.logged = pool.dates

\* Eleven dates: ten fetches in progress while the eleventh waits.
C14_TenRunningOneQueued ==
    pool.pc # "idle" /\ pool.dates = 11 /\ pool.running = 10 /\ pool.queued = 1

(***************************************************************************)
(* Properties of fetch_with_retry                                          *)
(***************************************************************************)
\* C15: for every max_retries >= 0 the call sends at most max_retries
\* requests, returns on the first success without a further request, has
\* slept retry_delay * 2^k after the k-th failed attempt exactly when another
\* attempt remained, and, when it raises, raises the transport error of the
\* last request.
C15_RetryContract ==
    fetch.pc # "idle" =>
        /\ fetch.requests <= fetch.max_retries
        /\ fetch.pc = "returned" =>
               fetch.returned = Some(fetch.requests - 1)
        /\ fetch.sleeps # << >> => Len(fetch.sleeps) <= fetch.max_retries - 1
        /\ fetch.pc = "l44" =>
               Len(fetch.sleeps) =
                   Cardinality({k \in 0..(fetch.attempt - 1) : k < fetch.max_retries - 1})
        /\ \A k \in 1..Len(fetch.sleeps) :
               fetch.sleeps[k] = fetch.retry_delay * (2 ^ (k - 1))
        /\ fetch.pc = "raised" =>
               /\ fetch.requests = fetch.max_retries
               /\ \E e \in RequestExceptions :
                      fetch.raised = Some(<<e, fetch.max_retries - 1>>)

(***************************************************************************)
(* Properties of a source's result                                         *)
(***************************************************************************)
\* C16: when the fetch of a page of a source has failed with its retries
\* exhausted, the source contributes no candidate: nothing of its other
\* pages or dates is kept.
C16_FailedSourceContributesNothing ==
    (win.pc = "returned" /\ win.logged # {}) => win.screenings = << >>

\* C20: the list scrape() of the Coolidge scraper returns is in date order
\* and, within a date, in the order of the date's page, whatever the order
\* in which the per-date workers finished.
C20_CoolidgeInWindowOrder ==
    win.pc = "returned" =>
        \A i, j \in 1..Len(win.screenings) :
            i < j =>
                \/ win.screenings[i].date < win.screenings[j].date
                \/ /\ win.screenings[i].date = win.screenings[j].date
                   /\ win.screenings[i].pos < win.screenings[j].pos

\* The dates whose pages scrape() returned, in the order of the returned list.
YieldOrder ==
    [k \in 1..(Len(win.screenings) \div PageLen) |->
        win.screenings[(k - 1) * PageLen + 1].date]

\* The same dates in window order.
WindowOrder ==
    SelectSeq([d \in 1..win.dates |-> d], LAMBDA d : win.fut[d] = "ok")

C17_RegistryOnlyGrows ==
    [][/\ resp'.op = "scrape" =>
              /\ resp'.job_id \notin JobIds
              /\ resp'.job_id \in DOMAIN jobs'
              /\ jobs'[resp'.job_id].status = "pending"
       /\ \A j \in JobIds :
              /\ get_job_status(j)' # None
              /\ get_job_status(j)'[1].job_id = get_job_status(j)[1].job_id
              /\ get_job_status(j)[1].job_id = j
       /\ \A j \in (DOMAIN jobs') \ JobIds :
              resp'.op = "scrape" /\ resp'.job_id = j]_vars

\* A second job was registered after the first one had completed, and both
\* are in the registry.
C17_SecondJobAfterFirstEnded ==
    /\ JobIds = {1, 2}
    /\ jobs[1].status = "complete"
    /\ jobs[2].status = "pending"
    /\ resp.op = "scrape" /\ resp.job_id = 2

\* C18: the record of a job changes only in a step of the job's own thread:
\* a step of another job's thread, a start of another job and every handler
\* of a read request (with its filtering and sorting) leave every field of
\* the record, the stored list and its order included, as it was.
C18_OnlyOwnThreadWrites ==
    [][\A j \in JobIds :
           jobs'[j] # jobs[j] =>
               /\ thr'[j] # thr[j]
               /\ \A k \in JobIds \ {j} : thr'[k] = thr[k] /\ jobs'[k] = jobs[k]
               /\ JobIds = DOMAIN jobs'
               /\ resp' = NoResp]_vars

\* A reader was given the stored list of a complete job while another job
\* is running.
C18_ReadWhileOtherRuns ==
    /\ resp.op = "get_screenings" /\ resp.code = 200
    /\ jobs[resp.job_id].screenings # << >>
    /\ \E k \in JobIds \ {resp.job_id} : jobs[k].status = "running"

(***************************************************************************)
(* Properties of the read endpoints                                        *)
(***************************************************************************)
\* C19: a request that names an id never issued is answered 404 "Job not
\* found"; a request for the screenings or the venues of a job that is
\* pending, running or error is answered 400 "Job not complete" and carries
\* no list; and neither answer is the job's status document.
C19_NotFoundAndNotComplete ==
    resp.op \in {"scrape_status", "get_screenings", "get_venues"} =>
        /\ resp.job_id \notin JobIds =>
               /\ resp.code = 404
               /\ resp.body = [error |-> "Job not found"]
        /\ (/\ resp.op \in {"get_screenings", "get_venues"}
            /\ resp.job_id \in JobIds
            /\ jobs[resp.job_id].status \in {"pending", "running", "error"}) =>
               /\ resp.code = 400
               /\ DOMAIN resp.body = {"error"}
               /\ resp.body.error \in
                      {"Job not complete (status: pending)",
                       "Job not complete (status: running)",
                       "Job not complete (status: error)"}

\* The venues of a job that ended in error were asked for.
C19_VenuesOfFailedJob ==
    /\ resp.op = "get_venues"
    /\ resp.job_id \in JobIds
    /\ jobs[resp.job_id].status = "error"
    /\ resp.code = 400

(***************************************************************************)
(* Properties of date_range                                                *)
(***************************************************************************)
\* The day number of a date of the proleptic Gregorian calendar.
Ordinal(d) ==
    LET y      == d[1] - 1
        before == [m \in 1..12 |->
                      CASE m = 1 -> 0 [] m = 2 -> 31 [] m = 3 -> 59 [] m = 4 -> 90
                        [] m = 5 -> 120 [] m = 6 -> 151 [] m = 7 -> 181 [] m = 8 -> 212
                        [] m = 9 -> 243 [] m = 10 -> 273 [] m = 11 -> 304 [] m = 12 -> 334]
        leap   == IF d[2] > 2 /\ ((d[1] % 4 = 0 /\ d[1] % 100 # 0) \/ d[1] % 400 = 0)
                  THEN 1 ELSE 0
    IN  365 * y + (y \div 4) - (y \div 100) + (y \div 400) + before[d[2]] + leap + d[3]

\* C23: date_range yields the dates start_date, start_date + 1 day, ... in
\* strictly increasing order, one per day, and when it stops it has yielded
\* exactly days_ahead + 1 of them, the last being start_date + days_ahead
\* (none when days_ahead is negative).
C23_DateRangeWindow ==
    call.fn = "date_range" =>
        /\ \A k \in 1..Len(call.yielded) :
               /\ Ordinal(call.yielded[k]) = Ordinal(call.config.start_date) + k - 1
               /\ call.yielded[k][2] \in 1..12 /\ call.yielded[k][3] \in 1..31
        /\ Len(call.yielded) <= call.config.days_ahead + 1 \/ call.yielded = << >>
        /\ call.pc = "stopped" =>
               Len(call.yielded) =
                   IF call.config.days_ahead < 0 THEN 0 ELSE call.config.days_ahead + 1

\* Start 2025-01-01 with days_ahead 2 has yielded 2025-01-01, 2025-01-02 and
\* 2025-01-03 and stopped.
C23_ThreeDaysOfJanuary ==
    /\ call.fn = "date_range" /\ call.pc = "stopped"
    /\ call.config = [start_date |-> <<2025, 1, 1>>, days_ahead |-> 2]
    /\ call.yielded = <<<<2025, 1, 1>>, <<2025, 1, 2>>, <<2025, 1, 3>>>>

(***************************************************************************)
(* Properties of the Harvard Film Archive pagination                       *)
(***************************************************************************)
\* The pages fetched are 1, 2, ... and every page before the last one had
\* events or was not page 1, and showed a further-page indicator.
FetchedInOrder ==
    /\ \A k \in 1..Len(call.fetched) : call.fetched[k].page = k
    /\ \A k \in 1..(Len(call.fetched) - 1) :
           /\ call.fetched[k].more
           /\ ~(k = 1 /\ call.fetched[k].events = << >>)

\* The scrape has returned for one of its reasons to stop.
StoppedForCause ==
    LET last == call.fetched[Len(call.fetched)]
    IN  \/ call.raised
        \/ ~last.more
        \/ last.page = 1 /\ last.events = << >>
        \/ Len(call.fetched) = 20

\* The in-window events of the pages fetched, in page order.
RECURSIVE GatheredSoFar(_)
GatheredSoFar(fetched) ==
    IF fetched = << >> THEN << >>
    ELSE GatheredSoFar(SubSeq(fetched, 1, Len(fetched) - 1))
         \o SelectSeq(fetched[Len(fetched)].events, LAMBDA ev : ev.in_window)

\* C22: the Harvard Film Archive scrape fetches the calendar pages 1, 2, ...
\* and at most 20 of them, goes on only past a page that shows a further-
\* page indicator (and not past a page 1 without events), returns what it
\* has gathered from the pages fetched, and always returns.
C22_PaginationTerminates ==
    /\ [](call.fn = "hfa_scrape" =>
              /\ Len(call.fetched) <= 20
              /\ FetchedInOrder
              /\ call.pc = "returned" =>
                     /\ StoppedForCause
                     /\ call.screenings = GatheredSoFar(call.fetched))
    /\ <>(call.fn = "hfa_scrape" => call.pc = "returned")

\* Twenty pages, each advertising more, were fetched and the scrape returned
\* with one screening of each.
C22_TwentyPagesFetched ==
    /\ call.fn = "hfa_scrape" /\ call.pc = "returned"
    /\ Len(call.fetched) = 20 /\ call.fetched[20].more
    /\ Len(call.screenings) = 20

(***************************************************************************)
(* Properties of the Coolidge line scanner                                 *)
(***************************************************************************)
\* C28: an hours-only line directly followed by a minutes-only line gives
\* the runtime hours * 60 + minutes, and a minutes-only line adds to the
\* runtime only when the line directly before it is the hours-only line.
C28_MinutesOnlyAfterHours ==
    call.fn = "parse_text" =>
        /\ \A k \in 2..(call.i - 1) :
               (call.lines[k - 1].hours # None /\ call.lines[k].mins # None
                /\ k = call.i - 1) =>
                   call.current_runtime =
                       Some(call.lines[k - 1].hours[1] * 60 + call.lines[k].mins[1])
        /\ \A n \in 1..Len(call.runtime_log) :
               call.runtime_log[n].by = "mins" =>
                   /\ call.runtime_log[n].at > 1
                   /\ call.lines[call.runtime_log[n].at - 1].hours # None

\* C29: the detail page of a film is asked for only when the film has a
\* detail URL and the listing gave neither its director nor its year.
C29_DetailOnlyWhenBothUnknown ==
    call.fn \in {"parse_text", "parse_film_section"} =>
        \A n \in 1..Len(call.detail_calls) :
            /\ call.detail_calls[n].detail_url # None
            /\ ~TruthyStr(call.detail_calls[n].director)
            /\ call.detail_calls[n].year = None

\* A page with two showings of a linked film: the first asked for the detail
\* page, the second, its year read from the listing in between, did not.
C29_AskedOnceThenYearKnown ==
    /\ call.fn = "parse_text"
    /\ Len(call.screenings) = 2
    /\ Len(call.detail_calls) = 1
    /\ call.screenings[1].title = call.screenings[2].title
    /\ call.screenings[1].year = DetailPage(call.screenings[1].title)[2]
    /\ call.screenings[2].year = Some(1922)

(***************************************************************************)
(* Properties of the Screen Boston parser                                  *)
(***************************************************************************)
\* The screenings of the well-formed entries of the page.
OwnScreenings ==
    UNION { { <<FilmTitles[k], FilmVenues[k], Showtime(k, j)>> :
                  j \in 1..call.entries[k].ntimes } :
            k \in {e \in 1..Len(call.entries) : WellFormed(call.entries[e])} }

Emitted == { <<call.screenings[n].title, call.screenings[n].venue, call.screenings[n].time>> :
                 n \in 1..Len(call.screenings) }

\* A page of short entries (none with more showtimes than one look-ahead
\* holds) under a date header, one entry at least malformed.
OneMalformedAmongShort ==
    /\ call.lines # << >> /\ call.lines[1].date # None
    /\ \A k \in 1..Len(call.entries) : call.entries[k].ntimes < LongRun
    /\ \E k \in 1..Len(call.entries) : ~WellFormed(call.entries[k])
    /\ \E k \in 1..Len(call.entries) : WellFormed(call.entries[k])

\* C21: with a malformed entry (no venue, or no showtime) among well-formed
\* ones, the parse returns exactly the screenings of the well-formed entries,
\* each with its own title, venue and times, and nothing for the malformed one.
C21_MalformedEntryIsolated ==
    (call.fn = "boston_parse" /\ call.pc = "returned" /\ OneMalformedAmongShort) =>
        Emitted = OwnScreenings

\* C30: every iteration of the line scan moves the index forward by at least
\* 1 and at most 15 lines, by exactly 1 when no film block was parsed, and
\* the scan ends.
C30_ScanAdvancesAndEnds ==
    /\ [](call.fn = "boston_parse" =>
            \A n \in 1..Len(call.advances) :
                /\ call.advances[n].n >= 1
                /\ call.advances[n].n <= 15
                /\ call.advances[n].on # "block" => call.advances[n].n = 1)
    /\ <>(call.fn = "boston_parse" => call.pc = "returned")

\* A film block consumed the whole look-ahead, and a failed parse moved on
\* by one line.
C30_FullLookAheadConsumed ==
    /\ call.fn = "boston_parse"
    /\ \E n \in 1..Len(call.advances) :
           call.advances[n].on = "block" /\ call.advances[n].n = max_look_ahead
    /\ \E n \in 1..Len(call.advances) : call.advances[n].on = "none"

=============================================================================
